---- MODULE Spec2Model ----
(***************************************************************************)
(* Model of the elyx_platform routing core (src/agents/llm_router.py) and  *)
(* of the completion client / structured responder                         *)
(* (src/agents/base_agent.py).                                             *)
(*                                                                         *)
(* Conventions                                                             *)
(*  - a message text is modelled by the set of vocabulary words occurring  *)
(*    in it; "h in msg_lower" is a substring test of h against the         *)
(*    lower-cased words (Lower, Contains).                                 *)
(*  - confidences are integers in hundredths (0.85 is 85).                 *)
(*  - a Python dict with optional keys is a record whose absent keys hold  *)
(*    None.                                                                *)
(***************************************************************************)
EXTENDS Integers, Sequences, FiniteSets, TLC

VARIABLES
    \* LLMRouter.orchestrate
    orch_pc, message, max_agents, key_info, orchestrated,
    \* LLMRouter.extract_key_info
    ext_pc, ext_router, ext_message, ext_context, raw, result, ext_raised,
    llm_called, _extract_cache,
    \* LLMRouter.execute_plan
    plan_pc, plan, plan_outcomes, results, plan_calls, plan_raised,
    \* BaseAgent.call_openrouter
    cl_pc, cl_agent, env, cl_messages, attempt, posts, sleeps, statuses, cl_return,
    cl_error,
    \* BaseAgent.respond
    rs_pc, schema, user_message, rs_context, rs_messages, rs_i, rs_outputs,
    rs_return, rs_raised, conversation_history, history_before,
    \* JourneyOrchestrator
    jr_pc, current_state, state_at_call, jr_week, jr_events, num_messages, jr_sent,
    weekly_conversations, chat_len, report, saves,
    \* JourneyOrchestrator._calculate_adherence
    ca_pc, ca_events, ca_draw, ca_adherence,
    \* GroupChatSystem.send_message
    ch_pc, chat_history, ch_sender, ch_message, ch_context, ch_agent_context,
    ch_responding, ch_responses, ch_return,
    \* LLMRouter.route
    rt_pc, rt_value, rt_raw_recs, rt_max_agents, rt_selected,
    \* LLMRouter.analyze_message
    an_pc, an_key_info, an_max_agents, an_result,
    \* IssueExtractor.extract_all
    is_pc, is_raw, is_result

orchVars == <<orch_pc, message, max_agents, key_info, orchestrated>>

extVars == <<ext_pc, ext_router, ext_message, ext_context, raw, result, ext_raised,
             llm_called, _extract_cache>>

planVars == <<plan_pc, plan, plan_outcomes, results, plan_calls, plan_raised>>

clientVars == <<cl_pc, cl_agent, env, cl_messages, attempt, posts, sleeps, statuses,
                cl_return, cl_error>>

respondVars == <<rs_pc, schema, user_message, rs_context, rs_messages, rs_i,
                 rs_outputs, rs_return, rs_raised, conversation_history,
                 history_before>>

journeyVars == <<jr_pc, current_state, state_at_call, jr_week, jr_events,
                 num_messages, jr_sent, weekly_conversations, chat_len, report,
                 saves, ca_pc, ca_events, ca_draw, ca_adherence>>

chatVars == <<ch_pc, chat_history, ch_sender, ch_message, ch_context,
              ch_agent_context, ch_responding, ch_responses, ch_return>>

routeVars == <<rt_pc, rt_value, rt_raw_recs, rt_max_agents, rt_selected,
               an_pc, an_key_info, an_max_agents, an_result>>

issueVars == <<is_pc, is_raw, is_result>>

vars == <<orchVars, extVars, planVars, clientVars, respondVars, journeyVars,
          chatVars, routeVars, issueVars>>

None == "None"

\* ---------------------------------------------------------------- bounds
MaxRecs == 2
MaxWords == 2
MaxAgents == 2

\* ------------------------------------------------------- generic helpers
InSeq(x, s) == \E i \in 1..Len(s) : s[i] = x

SeqsUpTo(S, n) == UNION {[1..k -> S] : k \in 0..n}

Min(a, b) == IF a < b THEN a ELSE b
Max(a, b) == IF a > b THEN a ELSE b

\* Python s[:n], negative n included
SliceTo(s, n) ==
    IF n >= 0 THEN SubSeq(s, 1, Min(n, Len(s)))
    ELSE SubSeq(s, 1, Max(0, Len(s) + n))

\* str.lower() on the strings of the model
Lower(s) ==
    CASE s = "Knee" -> "knee"
      [] s = "Ruby" -> "ruby"
      [] s = "Dr. Warren" -> "dr. warren"
      [] s = "Advik" -> "advik"
      [] s = "Carla" -> "carla"
      [] s = "Rachel" -> "rachel"
      [] s = "Neel" -> "neel"
      [] s = "Bob" -> "bob"
      [] s = "Nutrition" -> "nutrition"
      [] s = "High" -> "high"
      [] OTHER -> s

\* proper substrings among the (lower-cased) words and the hint keywords
SubstringPairs == {<<"twist", "twisted">>, <<"pain", "painful">>,
                   <<"travel", "traveling">>, <<"test", "latest">>}

\* Python "h in text" for one word of the text
Contains(text, h) == text = h \/ <<h, text>> \in SubstringPairs

\* (message or "").lower()
msg_lower_of(msg) == {Lower(w) : w \in msg}

\* any(h in msg_lower for h in hints)
any_hint(hints, msg_lower) == \E h \in hints : \E w \in msg_lower : Contains(w, h)

\* ------------------------------------------------------------- registry
agent_descriptions == <<"Ruby", "Dr. Warren", "Advik", "Carla", "Rachel", "Neel">>

Registered(a) == InSeq(a, agent_descriptions)

\* name_map = {k.lower(): k}; name_map.get(r.lower())
name_map_get(r) ==
    IF \E i \in 1..Len(agent_descriptions) : Lower(agent_descriptions[i]) = Lower(r)
    THEN agent_descriptions[CHOOSE i \in 1..Len(agent_descriptions) :
                                Lower(agent_descriptions[i]) = Lower(r)]
    ELSE None

\* recommendation entries that are not strings (JSON numbers, objects, null)
NonStrings == {"<number>", "<null>"}

IsStr(r) == r \notin NonStrings

\* normalisation loop of orchestrate and route
RECURSIVE canonical_recs(_, _)
canonical_recs(raw_recs, recs) ==
    IF raw_recs = <<>> THEN recs
    ELSE LET r == Head(raw_recs)
             canon == IF IsStr(r) THEN name_map_get(r) ELSE None
         IN canonical_recs(Tail(raw_recs),
                IF canon # None /\ ~InSeq(canon, recs) THEN Append(recs, canon) ELSE recs)

\* ------------------------------------------------------------ hint sets
physio_hints_local == {"pain", "injury", "back", "knee", "shoulder", "mobility",
                       "rehab", "twist", "sprain", "swelling"}
physio_hints == {"pain", "injury", "back", "knee", "shoulder", "mobility", "rehab"}
medical_hints == {"fever", "bleeding", "chest", "diagnosis", "lab", "blood", "test",
                  "result", "prescription"}
nutrition_hints == {"cgm", "glucose", "meal", "food", "diet", "protein", "carb",
                    "supplement"}
performance_hints == {"whoop", "oura", "hrv", "sleep", "recovery", "workout", "exercise"}

\* intent_map.get(intent)
intent_map(intent) ==
    CASE intent = "physio" -> "Rachel"
      [] intent = "medical" -> "Dr. Warren"
      [] intent = "nutrition" -> "Carla"
      [] intent = "performance" -> "Advik"
      [] intent = "logistics" -> "Ruby"
      [] OTHER -> None

\* thresholds, in hundredths
OverrideConfidence == 85
ClarifyConfidence == 70

\* ---------------------------------------------------------- orchestrate
Without(s, a) == SelectSeq(s, LAMBDA x : x # a)

\* strong domain override
strong_override(merged, msg_lower) ==
    IF any_hint(physio_hints_local, msg_lower)
    THEN IF InSeq("Rachel", merged)
         THEN <<"Rachel">> \o Without(Without(merged, "Rachel"), "Carla")
         ELSE <<"Rachel">> \o Without(merged, "Carla")
    ELSE merged

\* variant of specialist_of: the intent of the extraction wins over the hints
specialist_of_intent_first(intent, msg_lower) ==
    IF intent_map(Lower(intent)) # None THEN intent_map(Lower(intent))
    ELSE IF any_hint(physio_hints, msg_lower) THEN "Rachel"
    ELSE IF any_hint(medical_hints, msg_lower) THEN "Dr. Warren"
    ELSE IF any_hint(nutrition_hints, msg_lower) THEN "Carla"
    ELSE IF any_hint(performance_hints, msg_lower) THEN "Advik"
    ELSE None

\* the specialist implied by the intent, overridden by the keyword hints
specialist_of(intent, msg_lower) ==
    IF any_hint(physio_hints, msg_lower) THEN "Rachel"
    ELSE IF any_hint(medical_hints, msg_lower) THEN "Dr. Warren"
    ELSE IF any_hint(nutrition_hints, msg_lower) THEN "Carla"
    ELSE IF any_hint(performance_hints, msg_lower) THEN "Advik"
    ELSE intent_map(Lower(intent))

\* variant of override_of: the confidence threshold taken inclusively
override_of_inclusive(recs, confidence, msg_lower) ==
    IF recs = <<>> THEN TRUE
    ELSE IF confidence <= OverrideConfidence THEN TRUE
    ELSE any_hint(physio_hints \cup medical_hints \cup nutrition_hints
                      \cup performance_hints, msg_lower)

\* whether the implied specialist is promoted
override_of(recs, confidence, msg_lower) ==
    IF recs = <<>> THEN TRUE
    ELSE IF confidence < OverrideConfidence THEN TRUE
    ELSE any_hint(physio_hints \cup medical_hints \cup nutrition_hints
                      \cup performance_hints, msg_lower)

\* variant of promote: the promoted specialist is not removed from its old place
promote_keeping_duplicate(selected, specialist, recs, confidence, msg_lower) ==
    IF specialist # None /\ Registered(specialist)
       /\ override_of(recs, confidence, msg_lower)
    THEN <<specialist>> \o selected
    ELSE selected

promote(selected, specialist, recs, confidence, msg_lower) ==
    IF specialist # None /\ Registered(specialist)
       /\ override_of(recs, confidence, msg_lower)
    THEN <<specialist>> \o Without(selected, specialist)
    ELSE selected

\* final physio / nutrition mutual-exclusion pass
mutual_exclusion(selected, specialist) ==
    LET s1 == IF specialist = "Rachel" /\ InSeq("Carla", selected)
              THEN LET t == Without(selected, "Carla")
                   IN IF ~InSeq("Rachel", t) THEN <<"Rachel">> \o t ELSE t
              ELSE selected
    IN IF specialist = "Carla" /\ InSeq("Rachel", s1)
       THEN LET t == Without(s1, "Rachel")
            IN IF ~InSeq("Carla", t) THEN <<"Carla">> \o t ELSE t
       ELSE s1

\* the agents of the decision, in order
select_agents(msg, info, n) ==
    LET recs == canonical_recs(info.recommended_agents, <<>>)
        merged0 == IF recs # <<>> THEN recs ELSE <<"Ruby">>
        msg_lower == msg_lower_of(msg)
        merged == strong_override(merged0, msg_lower)
        trimmed == SliceTo(merged, n)
        specialist == specialist_of(info.intent, msg_lower)
        promoted == promote(trimmed, specialist, recs, info.confidence, msg_lower)
    IN mutual_exclusion(promoted, specialist)

\* str.strip() on the summaries of the model
Strip(s) == IF s = " " THEN "" ELSE s

Strategy(wait, initiator, reason, action, event) ==
    [wait_for_user |-> wait, initiator |-> initiator, reason |-> reason,
     action |-> action, wait_for_event |-> event]

\* variant of strategy_of: the clarification threshold taken inclusively
strategy_of_inclusive(agent, primary, info) ==
    LET summary == Strip(info.summary)
        entities == info.entities
    IN IF agent = primary
       THEN Strategy(FALSE, "orchestrator", "primary_agent", None, None)
       ELSE IF agent = "Ruby" /\ primary # "Ruby"
       THEN IF info.confidence <= ClarifyConfidence \/ (summary = "" /\ entities = {})
            THEN Strategy(FALSE, "Ruby", None, "ask_clarifying_question", None)
            ELSE Strategy(TRUE, "primary", "ruby_waits_for_primary", None, None)
       ELSE Strategy(TRUE, primary, "waiting_for_primary_or_coordination", None,
                     "primary_response_or_handoff")

strategy_of(agent, primary, info) ==
    LET summary == Strip(info.summary)
        entities == info.entities
    IN IF agent = primary
       THEN Strategy(FALSE, "orchestrator", "primary_agent", None, None)
       ELSE IF agent = "Ruby" /\ primary # "Ruby"
       THEN IF info.confidence < ClarifyConfidence \/ (summary = "" /\ entities = {})
            THEN Strategy(FALSE, "Ruby", None, "ask_clarifying_question", None)
            ELSE Strategy(TRUE, "primary", "ruby_waits_for_primary", None, None)
       ELSE Strategy(TRUE, primary, "waiting_for_primary_or_coordination", None,
                     "primary_response_or_handoff")

\* build_agent_messages: the turns sent to one agent, by kind
build_agent_messages(agent_name, primary_agent) ==
    <<[role |-> "system", content |-> "system_prompt"],
      [role |-> "system", content |-> "domain_instruction"]>>
    \o (IF agent_name = "Ruby"
        THEN <<[role |-> "system", content |-> "ruby_instruction"]>> ELSE <<>>)
    \o (IF primary_agent # None /\ agent_name # primary_agent /\ agent_name # "Ruby"
        THEN <<[role |-> "system", content |-> "prim_note"]>> ELSE <<>>)
    \o <<[role |-> "user", content |-> "key_info_and_message"]>>

orchestrate_result(msg, info, n) ==
    LET selected == select_agents(msg, info, n)
        primary == IF selected # <<>> THEN selected[1] ELSE None
    IN [i \in 1..Len(selected) |->
          [agent |-> selected[i],
           messages |-> build_agent_messages(selected[i], primary),
           strategy |-> strategy_of(selected[i], primary, info)]]

\* inputs of orchestrate
Words == {"twisted", "Knee", "lab", "meal", "sleep", "hello"}
Messages == {m \in SUBSET Words : Cardinality(m) <= MaxWords}
RawNames == {"Ruby", "rachel", "Carla", "Bob"}
Intents == {"physio", "Nutrition", "other"}
Confidences == {69, 70, 85}
Summaries == {"", " ", "weekly check-in"}
EntitySets == {{}, {"glucose"}}

\* extraction results; entities only matter to the strategy when the summary is empty
KeyInfos ==
    {info \in [summary : Summaries, intent : Intents, entities : EntitySets,
               confidence : Confidences,
               recommended_agents : SeqsUpTo(RawNames, MaxRecs)] :
        info.entities = {} \/ info.summary = ""}

NoKeyInfo ==
    [summary |-> "", intent |-> "other", entities |-> {}, confidence |-> 0,
     recommended_agents |-> <<>>]

OrchIdle ==
    /\ orch_pc = "idle"
    /\ message = {}
    /\ max_agents = 0
    /\ key_info = NoKeyInfo
    /\ orchestrated = <<>>

Orchestrate ==
    /\ orch_pc = "idle"
    /\ \E msg \in Messages, info \in KeyInfos, n \in 0..MaxAgents :
          /\ message' = msg
          /\ key_info' = info
          /\ max_agents' = n
          /\ orchestrated' = orchestrate_result(msg, info, n)
    /\ orch_pc' = "returned"

\* ------------------------------------------------------ JSON values
\* a decoded JSON value: its type tag and, by type, its payload
JV(t, b, n, s, items) == [t |-> t, b |-> b, n |-> n, s |-> s, items |-> items]
JAbsent == JV("absent", FALSE, 0, "", <<>>)
JNull == JV("null", FALSE, 0, "", <<>>)
JBool(b) == JV("bool", b, 0, "", <<>>)
JNum(n) == JV("num", FALSE, n, "", <<>>)
JStr(s) == JV("str", FALSE, 0, s, <<>>)
JList(items) == JV("list", FALSE, 0, "", items)
JDict(keys) == JV("dict", FALSE, 0, "", keys)

\* data.get(key, default)
Get(v, default) == IF v.t = "absent" THEN default ELSE v

\* Python truth value: bool(v), "v or ..."
Truthy(v) ==
    CASE v.t = "bool" -> v.b
      [] v.t = "num" -> v.n # 0
      [] v.t = "str" -> v.s # ""
      [] v.t \in {"list", "dict"} -> v.items # <<>>
      [] OTHER -> FALSE

\* strings float() accepts, with their value in hundredths
NumericStrings == {"0.9"}
ParseFloat(s) == IF s = "0.9" THEN 90 ELSE 0

\* float(v): the value in hundredths, or the exception raised
Float(v) ==
    CASE v.t = "num" -> [raised |-> None, value |-> v.n]
      [] v.t = "bool" -> [raised |-> None, value |-> IF v.b THEN 100 ELSE 0]
      [] v.t = "str" -> IF v.s \in NumericStrings
                        THEN [raised |-> None, value |-> ParseFloat(v.s)]
                        ELSE [raised |-> "ValueError", value |-> 0]
      [] OTHER -> [raised |-> "TypeError", value |-> 0]

\* ------------------------------------------------------- _extract_json
\* the JSON object of a completion text: the value of each key
Payload(summary, intent, entities, keywords, confidence, ihi, hi, iimp, imp, recs) ==
    [summary |-> summary, intent |-> intent, entities |-> entities,
     keywords |-> keywords, confidence |-> confidence, is_health_issue |-> ihi,
     health_issue |-> hi, is_improvement |-> iimp, improvement |-> imp,
     recommended_agents |-> recs]

EmptyObject ==
    Payload(JAbsent, JAbsent, JAbsent, JAbsent, JAbsent, JAbsent, JAbsent, JAbsent,
            JAbsent, JAbsent)

\* _extract_json(text): the decoded value; a text is its shape and, when it
\* holds one JSON object, that object
_extract_json(text) ==
    CASE text.shape = "object" -> [isdict |-> TRUE, obj |-> text.obj]
      [] text.shape = "array" -> [isdict |-> FALSE, obj |-> EmptyObject]
      [] text.shape = "text_with_object" -> [isdict |-> TRUE, obj |-> text.obj]
      [] text.shape = "text_with_two_objects" -> [isdict |-> TRUE, obj |-> EmptyObject]
      [] text.shape = "text_with_broken_object" -> [isdict |-> TRUE, obj |-> EmptyObject]
      [] OTHER -> [isdict |-> TRUE, obj |-> EmptyObject]

\* -------------------------------------------------- extract_key_info
IfType(v, t, default) == IF v.t = t THEN v ELSE default

\* is_health_issue / is_improvement
flag_of(v) == IF v.t # "absent" THEN Truthy(v) ELSE FALSE

\* float(data.get("confidence", 0) or 0)
confidence_of(v) ==
    LET got == Get(v, JNum(0)) IN Float(IF Truthy(got) THEN got ELSE JNum(0))

\* the result dict before the mutual-exclusivity rule
normalized(data) ==
    [summary |-> IfType(Get(data.summary, JStr("")), "str", JStr("")).s,
     intent |-> Get(data.intent, JStr("other")),
     entities |-> IfType(Get(data.entities, JDict(<<>>)), "dict", JDict(<<>>)).items,
     keywords |-> IfType(Get(data.keywords, JList(<<>>)), "list", JList(<<>>)).items,
     confidence |-> confidence_of(data.confidence).value,
     is_health_issue |-> flag_of(data.is_health_issue),
     health_issue |-> IfType(Get(data.health_issue, JDict(<<>>)), "dict", JDict(<<>>)).items,
     is_improvement |-> flag_of(data.is_improvement),
     improvement |-> IfType(Get(data.improvement, JDict(<<>>)), "dict", JDict(<<>>)).items,
     recommended_agents |->
         IfType(Get(data.recommended_agents, JList(<<>>)), "list", JList(<<>>)).items]

\* variant of enforce_exclusivity: the conflict is left as the model gave it
enforce_exclusivity_off(res) == res

\* an issue wins over an improvement
enforce_exclusivity(res) ==
    IF res.is_health_issue /\ res.is_improvement
    THEN [res EXCEPT !.is_improvement = FALSE]
    ELSE res

\* str.strip() on the message texts of the model
StripMessage(m) == IF m = " hi " THEN "hi" ELSE m

\* a context argument: None, or a dict with its items (key, value) in
\* insertion order
ExtContext(isdict, items) == [isdict |-> isdict, items |-> items]
NoneContext == ExtContext(FALSE, <<>>)

\* the keys of the contexts, in string order
KeyOrder == <<"events", "source", "week">>

\* json.dumps(context or {}, sort_keys=True): the items in key order; None
\* and {} serialize alike
Dumps(context) ==
    LET items == IF context.isdict THEN context.items ELSE <<>>
        of_key(k) == SelectSeq(items, LAMBDA it : it[1] = k)
    IN of_key(KeyOrder[1]) \o of_key(KeyOrder[2]) \o of_key(KeyOrder[3])

\* the cache key made of the message as it was given
cache_key_unstripped(m, context) == <<m, Dumps(context)>>

cache_key(m, context) == <<StripMessage(m), Dumps(context)>>

CacheCapacity == 128

CacheHas(cache, key) == \E i \in 1..Len(cache) : cache[i].key = key
CacheGet(cache, key) == cache[CHOOSE i \in 1..Len(cache) : cache[i].key = key].value

\* the insert at the end of extract_key_info; the dict keeps insertion order
cache_insert(cache, key, value) ==
    LET kept == IF Len(cache) > CacheCapacity THEN Tail(cache) ELSE cache
    IN Append(kept, [key |-> key, value |-> value])

DefaultResult == enforce_exclusivity(normalized(EmptyObject))

\* completion texts
ConfidenceValues == {JAbsent, JNum(90), JStr("0.9"), JStr("high")}
HealthFlagValues == {JAbsent, JBool(TRUE), JStr("false")}
ImprovementFlagValues == {JBool(FALSE), JBool(TRUE), JNum(1)}

WellTypedObject ==
    Payload(JStr("knee pain"), JStr("physio"), JDict(<<"knee">>), JList(<<"pain">>),
            JNum(90), JBool(TRUE), JDict(<<"title">>), JBool(TRUE), JDict(<<"title">>),
            JList(<<"Rachel">>))

IllTypedObject ==
    Payload(JNum(1), JNum(1), JList(<<"knee">>), JStr("pain"), JList(<<"x">>),
            JNum(0), JStr("issue"), JList(<<>>), JNull, JStr("Rachel"))

Objects ==
    {[EmptyObject EXCEPT !.confidence = c, !.is_health_issue = h, !.is_improvement = i] :
        c \in ConfidenceValues, h \in HealthFlagValues, i \in ImprovementFlagValues}
    \cup {WellTypedObject, IllTypedObject}

Texts ==
    {[shape |-> "object", obj |-> o] : o \in Objects}
    \cup {[shape |-> "text_with_object", obj |-> o] : o \in {WellTypedObject, IllTypedObject}}
    \cup {[shape |-> sh, obj |-> EmptyObject] :
            sh \in {"array", "text", "text_with_two_objects", "text_with_broken_object"}}

MessageTexts == {"hi", " hi ", "bye"}
Contexts == {NoneContext}
Routers == {"router"}

\* two router instances, contexts that differ in the order of their keys only,
\* and two completion texts
TwoRouters == {"router", "other_router"}
OrderedContexts ==
    {NoneContext, ExtContext(TRUE, <<>>),
     ExtContext(TRUE, <<<<"week", "1">>, <<"events", "none">>>>),
     ExtContext(TRUE, <<<<"events", "none">>, <<"week", "1">>>>)}
MemoTexts ==
    {[shape |-> "object", obj |-> WellTypedObject],
     [shape |-> "text", obj |-> EmptyObject]}

\* more distinct messages than the cache is meant to hold
MaxKeys == 131
DistinctMessage(k) == "message " \o ToString(k)
OneText == {[shape |-> "object", obj |-> WellTypedObject]}

NoText == [shape |-> "none", obj |-> EmptyObject]

ExtIdle ==
    /\ ext_pc = "idle"
    /\ ext_router = "router"
    /\ ext_message = ""
    /\ ext_context = NoneContext
    /\ raw = NoText
    /\ result = DefaultResult
    /\ ext_raised = None
    /\ llm_called = FALSE
    /\ _extract_cache = <<>>

\* one call of extract_key_info on a router instance; text is what the
\* completion client returns when it is called.  _extract_cache is an attribute
\* of the class: every instance reads and writes the same dict.
ExtractKeyInfoOn(routers, messages, contexts, texts) ==
    \E router \in routers, m \in messages, context \in contexts, text \in texts :
        LET key == cache_key(m, context)
            decoded == _extract_json(text)
            data == IF decoded.isdict THEN decoded.obj ELSE EmptyObject
            conf == confidence_of(data.confidence)
            res == enforce_exclusivity(normalized(data))
        IN /\ ext_router' = router
           /\ ext_message' = m
           /\ ext_context' = context
           /\ IF CacheHas(_extract_cache, key)
              THEN /\ llm_called' = FALSE
                   /\ raw' = NoText
                   /\ result' = CacheGet(_extract_cache, key)
                   /\ ext_raised' = None
                   /\ ext_pc' = "returned"
                   /\ UNCHANGED _extract_cache
              ELSE /\ llm_called' = TRUE
                   /\ raw' = text
                   /\ IF conf.raised # None
                      THEN /\ ext_raised' = conf.raised
                           /\ ext_pc' = "raised"
                           /\ UNCHANGED <<result, _extract_cache>>
                      ELSE /\ ext_raised' = None
                           /\ ext_pc' = "returned"
                           /\ result' = res
                           /\ _extract_cache' = cache_insert(_extract_cache, key, res)

ExtractKeyInfo == ExtractKeyInfoOn(Routers, MessageTexts, Contexts, Texts)

\* calls from two router instances with contexts in either key order
ExtractKeyInfoAgain ==
    ExtractKeyInfoOn(TwoRouters, MessageTexts, OrderedContexts, MemoTexts)

\* the message of the newest cache entry, as a number
NewestMessage ==
    IF _extract_cache = <<>> THEN 0
    ELSE CHOOSE k \in 1..MaxKeys :
            DistinctMessage(k) = _extract_cache[Len(_extract_cache)].key[1]

\* a call with a message never seen before
ExtractKeyInfoNew ==
    /\ NewestMessage < MaxKeys
    /\ ExtractKeyInfoOn(Routers, {DistinctMessage(NewestMessage + 1)}, Contexts, OneText)

\* a call with the message of the oldest cache entry
ExtractKeyInfoOld ==
    /\ _extract_cache # <<>>
    /\ ExtractKeyInfoOn(Routers, {_extract_cache[1].key[1]}, Contexts, OneText)

\* --------------------------------------------------------- execute_plan
MaxPlan == 3

agent_instances == <<"Ruby", "Dr. Warren", "Advik", "Carla", "Rachel", "Neel">>

\* variant of guarded_call: the exception of the completion call propagates
unguarded_call(outcome) ==
    IF outcome.raises # None
    THEN [raised |-> outcome.raises, resp |-> None]
    ELSE [raised |-> None, resp |-> outcome.text]

\* agent_instance.call_openrouter(messages) inside the try / except of
\* execute_plan: outcome is the reply text or the exception the call raises
guarded_call(outcome) ==
    IF outcome.raises # None
    THEN [raised |-> None, resp |-> None]
    ELSE [raised |-> None, resp |-> outcome.text]

\* variant of execute_from: the wait_for_user test is left out, so an entry
\* that waits is invoked like the others
RECURSIVE execute_from_ignoring_wait(_, _, _, _, _)
execute_from_ignoring_wait(orchestrated_plan, outcomes, i, done, calls) ==
    IF i > Len(orchestrated_plan)
    THEN [results |-> done, calls |-> calls, raised |-> None]
    ELSE LET item == orchestrated_plan[i]
             skipped == [agent |-> item.agent, strategy |-> item.strategy,
                         result |-> None]
         IN IF ~InSeq(item.agent, agent_instances)
            THEN execute_from_ignoring_wait(orchestrated_plan, outcomes, i + 1,
                                            Append(done, skipped), calls)
            ELSE LET r == guarded_call(outcomes[i])
                 IN execute_from_ignoring_wait(orchestrated_plan, outcomes, i + 1,
                        Append(done, [agent |-> item.agent,
                                      strategy |-> item.strategy,
                                      result |-> r.resp]),
                        Append(calls, item.agent))

\* the loop of execute_plan from entry i on; outcomes[i] is what the completion
\* call of entry i does if it is made
RECURSIVE execute_from(_, _, _, _, _)
execute_from(orchestrated_plan, outcomes, i, done, calls) ==
    IF i > Len(orchestrated_plan)
    THEN [results |-> done, calls |-> calls, raised |-> None]
    ELSE LET item == orchestrated_plan[i]
             skipped == [agent |-> item.agent, strategy |-> item.strategy,
                         result |-> None]
         IN IF item.strategy.wait_for_user
            THEN execute_from(orchestrated_plan, outcomes, i + 1,
                              Append(done, skipped), calls)
            ELSE IF ~InSeq(item.agent, agent_instances)
            THEN execute_from(orchestrated_plan, outcomes, i + 1,
                              Append(done, skipped), calls)
            ELSE LET r == guarded_call(outcomes[i])
                 IN IF r.raised # None
                    THEN [results |-> done, calls |-> Append(calls, item.agent),
                          raised |-> r.raised]
                    ELSE execute_from(orchestrated_plan, outcomes, i + 1,
                             Append(done, [agent |-> item.agent,
                                           strategy |-> item.strategy,
                                           result |-> r.resp]),
                             Append(calls, item.agent))

PlanAgents == {"Ruby", "Rachel", "Bob"}
PlanEntries ==
    {[agent |-> a, strategy |-> [wait_for_user |-> w]] :
        a \in PlanAgents, w \in BOOLEAN}
Plans == SeqsUpTo(PlanEntries, MaxPlan)
CallOutcomes == {[raises |-> None, text |-> "reply"],
                 [raises |-> "RuntimeError", text |-> None]}

PlanIdle ==
    /\ plan_pc = "idle"
    /\ plan = <<>>
    /\ plan_outcomes = <<>>
    /\ results = <<>>
    /\ plan_calls = <<>>
    /\ plan_raised = None

ExecutePlan ==
    /\ plan_pc = "idle"
    /\ \E p \in Plans : \E outcomes \in [1..Len(p) -> CallOutcomes] :
          LET run == execute_from(p, outcomes, 1, <<>>, <<>>)
          IN /\ plan' = p
             /\ plan_outcomes' = outcomes
             /\ results' = run.results
             /\ plan_calls' = run.calls
             /\ plan_raised' = run.raised
             /\ plan_pc' = IF run.raised = None THEN "returned" ELSE "raised"


\* ------------------------------------------- BaseAgent.call_openrouter
MaxTurns == 2

\* a text of n characters; the salt tells the texts of different turns apart
Text(salt, n) == [i \in 1..n |-> (i + salt) % 10]

\* s[:n] on a text
Prefix(s, n) == SubSeq(s, 1, Min(n, Len(s)))

MockEchoLimit == 160

Unset == "<unset>"

\* str.strip() on the environment values of the model
StripEnv(v) == IF v = " True " THEN "True" ELSE v

\* os.getenv(name, default)
Getenv(v, default) == IF v = Unset THEN default ELSE v

_should_use_mock(e) ==
    LET use_mock == StripEnv(Getenv(e.USE_MOCK_RESPONSES, "0")) \in {"1", "true", "True"}
    IN use_mock \/ e.OPENROUTER_API_KEY \in {Unset, ""}

\* next((m["content"] for m in reversed(messages) if m["role"] == "user"), "")
RECURSIVE last_user(_)
last_user(messages) ==
    IF messages = <<>> THEN <<>>
    ELSE LET m == messages[Len(messages)]
         IN IF m.role = "user" THEN m.content
            ELSE last_user(SubSeq(messages, 1, Len(messages) - 1))

\* variant of _mock_response: the user turn is echoed in full
_mock_response_untruncated(a, messages) ==
    [kind |-> "mock", name |-> a.name, role |-> a.role, echo |-> last_user(messages)]

\* "[name - role] Acknowledged: " followed by the echo
_mock_response(a, messages) ==
    [kind |-> "mock", name |-> a.name, role |-> a.role,
     echo |-> Prefix(last_user(messages), MockEchoLimit)]

NoReturn == [kind |-> "none", name |-> "", role |-> "", echo |-> <<>>]

\* body["choices"][0]["message"]["content"] of a 200 response
ContentReturn == [kind |-> "content", name |-> "", role |-> "", echo |-> <<>>]

backoffs == <<1, 2, 4>>

\* [0] + backoffs
delays == <<0>> \o backoffs

\* variant of retry_status: every non-200 response is retried
retry_any_failure(status) == status # 200

\* "On 429 keep retrying; otherwise break"
retry_status(status) == status = 429

NoAgent == [name |-> "", role |-> ""]

AgentsOfClient == {[name |-> "Router", role |-> "Orchestrator"],
                   [name |-> "Ruby", role |-> "Concierge"]}
MockFlags == {Unset, "1", " True ", "0"}
ApiKeys == {Unset, "", "sk-key"}
Environments == [USE_MOCK_RESPONSES : MockFlags, OPENROUTER_API_KEY : ApiKeys]
Contents == {Text(1, 3), Text(2, 160), Text(3, 161)}
Turns == [role : {"system", "user"}, content : Contents]
TurnLists == SeqsUpTo(Turns, MaxTurns)
Statuses == {200, 429, 500}

ClientIdle ==
    /\ cl_pc = "idle"
    /\ cl_agent = NoAgent
    /\ env = [USE_MOCK_RESPONSES |-> Unset, OPENROUTER_API_KEY |-> Unset]
    /\ cl_messages = <<>>
    /\ attempt = 0
    /\ posts = 0
    /\ sleeps = <<>>
    /\ statuses = <<>>
    /\ cl_return = NoReturn
    /\ cl_error = 0

\* entry of call_openrouter: the mock answer, or the start of the retry loop
CallOpenrouter ==
    /\ cl_pc = "idle"
    /\ \E self \in AgentsOfClient, e \in Environments, messages \in TurnLists :
          /\ cl_agent' = self
          /\ env' = e
          /\ cl_messages' = messages
          /\ IF _should_use_mock(e)
             THEN /\ cl_return' = _mock_response(self, messages)
                  /\ cl_pc' = "returned"
             ELSE /\ cl_return' = NoReturn
                  /\ cl_pc' = "posting"
    /\ UNCHANGED <<attempt, posts, sleeps, statuses, cl_error>>

\* one iteration of the retry loop: sleep, post, look at the status; the loop
\* ends in a return (200) or in the RuntimeError raised after it
Post ==
    /\ cl_pc = "posting"
    /\ attempt < Len(delays)
    /\ \E status \in Statuses :
          LET delay == delays[attempt + 1]
          IN /\ sleeps' = IF delay # 0 THEN Append(sleeps, delay) ELSE sleeps
             /\ posts' = posts + 1
             /\ statuses' = Append(statuses, status)
             /\ attempt' = attempt + 1
             /\ IF status = 200
                THEN /\ cl_return' = ContentReturn
                     /\ cl_pc' = "returned"
                     /\ UNCHANGED cl_error
                ELSE IF ~retry_status(status) \/ attempt + 1 = Len(delays)
                THEN /\ cl_error' = status
                     /\ cl_pc' = "raised"
                     /\ UNCHANGED cl_return
                ELSE UNCHANGED <<cl_return, cl_error, cl_pc>>
    /\ UNCHANGED <<cl_agent, env, cl_messages>>

\* --------------------------------------------------- BaseAgent.respond
MaxHistory == 2

\* range(3)
RespondAttempts == 3

final_error == "Failed to get a valid JSON response after multiple retries."

\* what one call of call_openrouter gives respond: a text, by what it holds, or
\* the RuntimeError of the client
ModelOutputs == {"valid_object", "valid_object_in_prose", "schema_violating_object",
                 "prose", "broken_object", "two_objects"}
ClientFailure == "RuntimeError"

\* json.loads(response_text[find('{') : rfind('}') + 1]): the span from the
\* first '{' to the last '}' decodes only when it is one JSON object
json_part_decodes(output) ==
    output \in {"valid_object", "valid_object_in_prose", "schema_violating_object"}

\* json.dumps(response_json)
canonical(output) ==
    IF output = "schema_violating_object" THEN "{other}" ELSE "{valid}"

\* variant of attempt_exception: a schema violation is not among the caught errors
attempt_exception_uncaught(has_schema, output) ==
    IF ~json_part_decodes(output) THEN [name |-> "JSONDecodeError", caught |-> TRUE]
    ELSE IF has_schema /\ output = "schema_violating_object"
    THEN [name |-> "ValidationError", caught |-> FALSE]
    ELSE [name |-> None, caught |-> FALSE]

\* the exception of the try block of one attempt, and whether the except
\* clause (json.JSONDecodeError, jsonschema.ValidationError) catches it
attempt_exception(has_schema, output) ==
    IF ~json_part_decodes(output) THEN [name |-> "JSONDecodeError", caught |-> TRUE]
    ELSE IF has_schema /\ output = "schema_violating_object"
    THEN [name |-> "ValidationError", caught |-> TRUE]
    ELSE [name |-> None, caught |-> FALSE]

UserMessages == {"How is my sleep?", "Book my labs"}
RespondContexts == {None, "week"}

RespondIdle ==
    /\ rs_pc = "idle"
    /\ schema = FALSE
    /\ user_message = ""
    /\ rs_context = None
    /\ rs_messages = <<>>
    /\ rs_i = 0
    /\ rs_outputs = <<>>
    /\ rs_return = None
    /\ rs_raised = None
    /\ conversation_history = <<>>
    /\ history_before = <<>>

\* construction of the agent, with or without a schema
NewAgent ==
    /\ rs_pc = "idle"
    /\ \E has_schema \in BOOLEAN : schema' = has_schema
    /\ rs_pc' = "ready"
    /\ UNCHANGED <<user_message, rs_context, rs_messages, rs_i, rs_outputs, rs_return,
                   rs_raised, conversation_history, history_before>>

\* entry of respond: the message list is built
Respond ==
    /\ rs_pc \in {"ready", "returned", "raised"}
    /\ Len(conversation_history) < MaxHistory
    /\ \E um \in UserMessages, context \in RespondContexts :
          /\ user_message' = um
          /\ rs_context' = context
          /\ rs_messages' = IF context # None
                            THEN <<"system_prompt", "context", "user_message">>
                            ELSE <<"system_prompt", "user_message">>
    /\ rs_i' = 0
    /\ rs_outputs' = <<>>
    /\ rs_return' = None
    /\ rs_raised' = None
    /\ history_before' = conversation_history
    /\ rs_pc' = "loop"
    /\ UNCHANGED <<schema, conversation_history>>

\* one iteration of the retry loop whose completion call returns a text
RespondAttempt ==
    /\ rs_pc = "loop"
    /\ rs_i < RespondAttempts
    /\ \E output \in ModelOutputs :
          LET exc == attempt_exception(schema, output)
          IN /\ rs_outputs' = Append(rs_outputs, output)
             /\ IF exc.name = None
                THEN /\ conversation_history' =
                           Append(conversation_history,
                                  [user |-> user_message, assistant |-> canonical(output)])
                     /\ rs_return' = canonical(output)
                     /\ rs_pc' = "returned"
                     /\ UNCHANGED <<rs_messages, rs_i, rs_raised>>
                ELSE IF exc.caught
                THEN /\ rs_messages' = Append(rs_messages, "error_note")
                     /\ rs_i' = rs_i + 1
                     /\ UNCHANGED <<conversation_history, rs_return, rs_pc, rs_raised>>
                ELSE /\ rs_raised' = exc.name
                     /\ rs_pc' = "raised"
                     /\ UNCHANGED <<conversation_history, rs_return, rs_messages, rs_i>>
    /\ UNCHANGED <<schema, user_message, rs_context, history_before>>

\* one iteration whose completion call raises: respond does not catch it
RespondCallFails ==
    /\ rs_pc = "loop"
    /\ rs_i < RespondAttempts
    /\ rs_outputs' = Append(rs_outputs, ClientFailure)
    /\ rs_raised' = ClientFailure
    /\ rs_pc' = "raised"
    /\ UNCHANGED <<schema, user_message, rs_context, rs_messages, rs_i, rs_return,
                   conversation_history, history_before>>

\* after the loop: the sentinel is recorded and returned
RespondGiveUp ==
    /\ rs_pc = "loop"
    /\ rs_i = RespondAttempts
    /\ conversation_history' =
          Append(conversation_history, [user |-> user_message, assistant |-> final_error])
    /\ rs_return' = final_error
    /\ rs_pc' = "returned"
    /\ UNCHANGED <<schema, user_message, rs_context, rs_messages, rs_i, rs_outputs,
                   rs_raised, history_before>>

\* ------------------------------------------------- GroupChatSystem: who answers
medical_keywords == {"blood sugar", "test", "medication", "report"}
nutrition_keywords == {"diet", "nutrition", "food", "snack"}
exercise_keywords == {"exercise", "workout", "sleep", "wearable"}
injury_keywords == {"injury", "pain", "mobility", "rehab"}
strategic_keywords == {"frustrated", "progress", "plan", "goals"}
travel_keywords == {"travel", "trip", "fly"}

\* list(set(responding)): the agents that answer, in no defined order
determine_responding_agents(msg) ==
    LET message_lower == msg_lower_of(msg)
    IN {"Ruby"}
       \cup (IF any_hint(medical_keywords, message_lower) THEN {"Dr. Warren"} ELSE {})
       \cup (IF any_hint(nutrition_keywords, message_lower) THEN {"Carla"} ELSE {})
       \cup (IF any_hint(exercise_keywords, message_lower) THEN {"Advik"} ELSE {})
       \cup (IF any_hint(injury_keywords, message_lower) THEN {"Rachel"} ELSE {})
       \cup (IF any_hint(strategic_keywords, message_lower) THEN {"Neel"} ELSE {})
       \cup (IF any_hint(travel_keywords, message_lower)
             THEN {"Advik", "Carla", "Rachel"} ELSE {})

\* any(word in message.lower() for word in ["travel", "trip", "fly"])
mentions_travel(msg) == any_hint(travel_keywords, msg_lower_of(msg))

\* "@inject" in message.lower()
handle_event_injection(msg) == any_hint({"@inject"}, msg_lower_of(msg))

\* what extract_travel_details_with_llm and generate_travel_protocol meet:
\* text without a JSON object (the default details are used), an object with
\* the seven keys, an object generate_travel_protocol(**details) cannot take,
\* or the completion client raising
TravelOutcomes == {"no_json", "details", "bad_details", "upstream_error"}

\* the travel branch of get_agent_responses raises (nothing guards it)
travel_raises(outcome) == outcome \in {"bad_details", "upstream_error"}

\* --------------------------------------------------- JourneyOrchestrator
MaxPanels == 2
MaxReplans == 1

\* Numbers are kept in thousandths (0.85 is 850).  A rendered string is a
\* record: t = "num" with d decimals and v the digits (5.84 is d = 2,
\* v = 584), t = "signed" for the '+' format, t = "text" for any other string,
\* t = "absent" for a key the dict does not hold.
Sv(t, d, v, s) == [t |-> t, d |-> d, v |-> v, s |-> s]
SAbsent == Sv("absent", 0, 0, "")
SNum(d, v) == Sv("num", d, v, "")
SText(s) == Sv("text", 0, 0, s)

Pow10(d) == CASE d = 0 -> 1 [] d = 1 -> 10 [] d = 2 -> 100 [] OTHER -> 1000

\* rounding of the format specifications: to nearest, ties to even
RoundHalfEven(x, q) ==
    LET f == x \div q
        r == x % q
    IN IF 2 * r < q THEN f
       ELSE IF 2 * r > q THEN f + 1
       ELSE IF f % 2 = 0 THEN f ELSE f + 1

\* f"{x:.2f}" and f"{x:.0f}"
Format2(x) == SNum(2, RoundHalfEven(x, 10))
Format0(x) == SNum(0, RoundHalfEven(x, 1000))

\* f"{x:+.2f}": the sign is always written
FormatSigned2(x) == Sv("signed", 2, RoundHalfEven(x, 10), IF x < 0 THEN "-" ELSE "+")

\* float(value) on a rendered string: ValueError on text
float_of(sv) ==
    IF sv.t \in {"num", "signed"}
    THEN [raised |-> None, value |-> sv.v * Pow10(3 - sv.d)]
    ELSE [raised |-> "ValueError", value |-> 0]

Biomarkers == {"A1C", "Triglycerides", "Vitamin D", "Focus Area"}

\* _simulate_lab_results with the weekly report's A1C slope (0.02 a week)
_simulate_lab_results_report_rate(week, vitamin_d, focus) ==
    LET a1c == 6200 - (week * 20)
        triglycerides == 150000 - (week * 1500)
    IN [k \in Biomarkers |->
          CASE k = "A1C" -> Format2(a1c)
            [] k = "Triglycerides" -> Format0(triglycerides)
            [] k = "Vitamin D" -> SNum(0, vitamin_d)
            [] OTHER -> SText(focus)]

\* _simulate_lab_results, with the two random draws as parameters
_simulate_lab_results(week, vitamin_d, focus) ==
    LET a1c == 6200 - (week * 30)
        triglycerides == 150000 - (week * 1500)
    IN [k \in Biomarkers |->
          CASE k = "A1C" -> Format2(a1c)
            [] k = "Triglycerides" -> Format0(triglycerides)
            [] k = "Vitamin D" -> SNum(0, vitamin_d)
            [] OTHER -> SText(focus)]

\* _calculate_delta
_calculate_delta(current_results, previous_results) ==
    [k \in Biomarkers |->
       IF current_results[k].t = "absent" \/ previous_results[k].t = "absent"
       THEN SAbsent
       ELSE LET current_val == float_of(current_results[k])
                previous_val == float_of(previous_results[k])
            IN IF current_val.raised # None \/ previous_val.raised # None
               THEN SText("N/A")
               ELSE FormatSigned2(current_val.value - previous_val.value)]

\* delta = {}
EmptyDelta == [k \in Biomarkers |-> SAbsent]

DiagnosticPanel(week, lab_results, delta) ==
    [week |-> week, results |-> lab_results, delta |-> delta]

MicroReplan(week, version, reason) ==
    [week |-> week, version |-> version, reason |-> reason,
     changes |-> <<"shorter_workouts", "morning_walk", "stretching">>]

\* an entry of weekly_conversations: who speaks and where the turn comes from
Turn(sender, source) == [sender |-> sender, source |-> source]

\* the scripted turns of the diagnostic sub-protocol
scripted_before == <<Turn("Ruby", "diagnostic"), Turn("Ruby", "diagnostic")>>
scripted_after ==
    <<Turn("Dr. Warren", "diagnostic"), Turn("Dr. Warren", "diagnostic"),
      Turn("Carla", "diagnostic"), Turn("Rachel", "diagnostic"),
      Turn("Advik", "diagnostic")>>

\* _handle_diagnostic_panel comparing with the first stored panel
_handle_diagnostic_panel_first(state, week, conversations, vitamin_d, focus) ==
    LET lab_results == _simulate_lab_results(week, vitamin_d, focus)
        previous_panels == state.diagnostic_panels
        delta == IF previous_panels # <<>>
                 THEN _calculate_delta(lab_results, previous_panels[1].results)
                 ELSE EmptyDelta
        panel == DiagnosticPanel(week, lab_results, delta)
    IN [state |-> [state EXCEPT !.diagnostic_panels = Append(@, panel)],
        conversations |-> conversations \o scripted_before \o scripted_after]

\* _handle_diagnostic_panel: the new journey state and the week's turns
_handle_diagnostic_panel(state, week, conversations, vitamin_d, focus) ==
    LET lab_results == _simulate_lab_results(week, vitamin_d, focus)
        previous_panels == state.diagnostic_panels
        delta == IF previous_panels # <<>>
                 THEN _calculate_delta(lab_results,
                          previous_panels[Len(previous_panels)].results)
                 ELSE EmptyDelta
        panel == DiagnosticPanel(week, lab_results, delta)
    IN [state |-> [state EXCEPT !.diagnostic_panels = Append(@, panel)],
        conversations |-> conversations \o scripted_before \o scripted_after]

\* the independent-rules variant of generate_weekly_events
generate_weekly_events_all_rules(week) ==
    (IF week = 1 THEN <<"onboarding_complete", "initial_blood_test_high_sugar">>
     ELSE <<>>)
    \o (IF week \in {12, 24, 34} THEN <<"quarterly_diagnostic_test">> ELSE <<>>)
    \o (IF week = 10 THEN <<"leg_injury_reported">> ELSE <<>>)
    \o (IF week % 4 = 0 THEN <<"business_travel">> ELSE <<>>)
    \o (IF week % 2 = 0 THEN <<"exercise_plan_update">> ELSE <<>>)

\* generate_weekly_events
generate_weekly_events(week) ==
    IF week = 1 THEN <<"onboarding_complete", "initial_blood_test_high_sugar">>
    ELSE IF week \in {12, 24, 34} THEN <<"quarterly_diagnostic_test">>
    ELSE IF week = 10 THEN <<"leg_injury_reported">>
    ELSE IF week % 4 = 0 THEN <<"business_travel">>
    ELSE IF week % 2 = 0 THEN <<"exercise_plan_update">>
    ELSE <<>>

\* the texts of generate_user_messages, by the words the chat keywords meet
injury_message == {"twisted", "painful", "swollen"}
travel_message == {"traveling", "plan"}
results_message == {"test", "results"}
curiosity_messages ==
    {{"cgm", "blood sugar"}, {"latest", "fasting"}, {"sleep", "blood sugar"},
     {"stress", "a1c"}, {"supplements"}}

\* one iteration of generate_user_messages: the texts it can append
user_message_choices(events) ==
    IF InSeq("leg_injury_reported", events) THEN {injury_message}
    ELSE IF InSeq("business_travel", events) THEN {travel_message}
    ELSE IF InSeq("quarterly_diagnostic_test", events) THEN {results_message}
    ELSE curiosity_messages

\* base adherence and penalties, the largest random draw and the replan
\* threshold, in thousandths
BaseAdherence == 850
TravelPenalty == 200
InjuryPenalty == 300
MaxDraw == 150
ReplanThreshold == 600

\* _calculate_adherence with the draw added instead of subtracted
_calculate_adherence_adding_draw(events, draw) ==
    LET after_travel == IF InSeq("business_travel", events)
                        THEN BaseAdherence - TravelPenalty ELSE BaseAdherence
        after_injury == IF InSeq("leg_injury_reported", events)
                        THEN after_travel - InjuryPenalty ELSE after_travel
    IN Max(0, after_injury + draw)

\* _calculate_adherence without the injury penalty
_calculate_adherence_without_injury(events, draw) ==
    LET after_travel == IF InSeq("business_travel", events)
                        THEN BaseAdherence - TravelPenalty ELSE BaseAdherence
    IN Max(0, after_travel - draw)

\* _calculate_adherence, with the random draw as a parameter
_calculate_adherence(events, draw) ==
    LET after_travel == IF InSeq("business_travel", events)
                        THEN BaseAdherence - TravelPenalty ELSE BaseAdherence
        after_injury == IF InSeq("leg_injury_reported", events)
                        THEN after_travel - InjuryPenalty ELSE after_travel
    IN Max(0, after_injury - draw)

\* weekly_conversations.extend(conversation) putting the new turns in front
extend_in_front(conversations, conversation) == conversation \o conversations

\* weekly_conversations.extend(conversation)
extend(conversations, conversation) == conversations \o conversation

\* _generate_micro_replan
_generate_micro_replan(state, week, adherence, conversations) ==
    LET plan_version == <<week, Len(state.micro_replans) + 1>>
        reason == RoundHalfEven(adherence, 10)
        replan == MicroReplan(week, plan_version, reason)
    IN [state |-> [state EXCEPT !.micro_replans = Append(@, replan)],
        conversations |-> Append(conversations, Turn("Neel", "replan"))]

\* the threshold test of generate_weekly_report
needs_replan_inclusive(adherence) == adherence <= ReplanThreshold

needs_replan(adherence) == adherence < ReplanThreshold

\* generate_weekly_report (agent_actions and recommendations, which nothing
\* else reads, are not part of the record)
generate_weekly_report(state, week, events, conversations, draw) ==
    LET adherence == _calculate_adherence(events, draw)
        replanned == IF needs_replan(adherence)
                     THEN _generate_micro_replan(state, week, adherence, conversations)
                     ELSE [state |-> state, conversations |-> conversations]
        blood_sugar_improvement == Max(0, (week - 1) * 2)
    IN [state |-> replanned.state,
        conversations |-> replanned.conversations,
        report |-> [week |-> week,
                    events |-> events,
                    conversations_count |-> Len(replanned.conversations),
                    adherence_rate |-> adherence,
                    health_metrics |->
                        [blood_sugar_avg |-> Max(120, 180 - blood_sugar_improvement),
                         a1c |-> Max(5500, 6200 - (week * 20)),
                         weight |-> IF week > 4 THEN 75000 - (week * 100) ELSE 75000]]]

\* PersistenceManager.save_*: a durable write of the value handed over, made
\* when the call is made (week is the simulate_week call it belongs to)
save(op, week, payload) == [op |-> op, week |-> week, payload |-> payload]

\* the writes that end simulate_week, in call order: the variant that forgets
\* the journey state
week_writes_without_state(week, weekly_report, history, state) ==
    <<save("save_weekly_report", week, weekly_report),
      save("save_conversation_history", week, history)>>

\* the writes that end simulate_week, in call order
week_writes(week, weekly_report, history, state) ==
    <<save("save_weekly_report", week, weekly_report),
      save("save_conversation_history", week, history),
      save("save_journey_state", week, state)>>

\* --- inputs of the journey
MaxEvents == 2

Weeks == {1, 5, 6, 8, 10, 12, 24, 34}
NumMessages == 3..5
VitaminDValues == {25, 45}
FocusAreas == {"LDL Cholesterol", "Inflammation (hs-CRP)"}
Draws == {0, 50, 51, MaxDraw}
EventNames == {"onboarding_complete", "initial_blood_test_high_sugar",
               "quarterly_diagnostic_test", "leg_injury_reported",
               "business_travel", "exercise_plan_update"}
EventLists == SeqsUpTo(EventNames, MaxEvents)

\* panels a stored journey state can hold: one written by this program and
\* one of an older layout (a value that is no number, two biomarkers missing)
GeneratedPanel ==
    DiagnosticPanel(12, _simulate_lab_results(12, 25, "LDL Cholesterol"), EmptyDelta)
LegacyPanel ==
    DiagnosticPanel(0,
        [k \in Biomarkers |->
           CASE k = "A1C" -> SNum(2, 610)
             [] k = "Triglycerides" -> SText("pending")
             [] OTHER -> SAbsent],
        EmptyDelta)
PriorPanels == {GeneratedPanel, LegacyPanel}
PriorReplans == {MicroReplan(8, <<8, 1>>, 55)}

\* what load_journey_state can return: either list may be missing
LoadedStates ==
    {[has_panels |-> hp, diagnostic_panels |-> p,
      has_replans |-> hr, micro_replans |-> r] :
        hp \in BOOLEAN, hr \in BOOLEAN,
        p \in SeqsUpTo(PriorPanels, MaxPanels),
        r \in SeqsUpTo(PriorReplans, MaxReplans)}

NoReport ==
    [week |-> 0, events |-> <<>>, conversations_count |-> 0, adherence_rate |-> 0,
     health_metrics |-> [blood_sugar_avg |-> 0, a1c |-> 0, weight |-> 0]]

EmptyState == [diagnostic_panels |-> <<>>, micro_replans |-> <<>>]

JourneyIdle ==
    /\ jr_pc = "idle"
    /\ current_state = EmptyState
    /\ state_at_call = EmptyState
    /\ jr_week = 0
    /\ jr_events = <<>>
    /\ num_messages = 0
    /\ jr_sent = 0
    /\ weekly_conversations = <<>>
    /\ chat_len = 0
    /\ report = NoReport
    /\ saves = <<>>
    /\ ca_pc = "idle"
    /\ ca_events = <<>>
    /\ ca_draw = 0
    /\ ca_adherence = 0

\* JourneyOrchestrator.__init__: load the state, fill in the missing lists
NewJourneyOrchestrator ==
    /\ jr_pc = "idle"
    /\ ca_pc = "idle"
    /\ \E loaded \in LoadedStates :
         /\ ~loaded.has_panels => loaded.diagnostic_panels = <<>>
         /\ ~loaded.has_replans => loaded.micro_replans = <<>>
         /\ current_state' =
              [diagnostic_panels |-> IF loaded.has_panels
                                     THEN loaded.diagnostic_panels ELSE <<>>,
               micro_replans |-> IF loaded.has_replans
                                 THEN loaded.micro_replans ELSE <<>>]
    /\ jr_pc' = "ready"
    /\ UNCHANGED <<state_at_call, jr_week, jr_events, num_messages, jr_sent,
                   weekly_conversations, chat_len, report, saves,
                   ca_pc, ca_events, ca_draw, ca_adherence>>

\* simulate_week up to the message loop: events, the number of messages, and
\* the diagnostic sub-protocol when the week has one
SimulateWeek ==
    /\ jr_pc = "ready"
    /\ \E week \in Weeks, n \in NumMessages,
          vitamin_d \in VitaminDValues, focus \in FocusAreas :
         LET events == generate_weekly_events(week)
             has_panel == InSeq("quarterly_diagnostic_test", events)
             handled == IF has_panel
                        THEN _handle_diagnostic_panel(current_state, week, <<>>,
                                                      vitamin_d, focus)
                        ELSE [state |-> current_state, conversations |-> <<>>]
         IN /\ ~has_panel =>
                 vitamin_d = 25 /\ focus = "LDL Cholesterol"
            /\ jr_week' = week
            /\ jr_events' = events
            /\ num_messages' = n
            /\ state_at_call' = current_state
            /\ current_state' = handled.state
            /\ weekly_conversations' = handled.conversations
    /\ jr_sent' = 0
    /\ jr_pc' = "sending"
    /\ UNCHANGED <<chat_len, report, saves, ca_pc, ca_events, ca_draw, ca_adherence>>

\* one turn of the message loop of simulate_week: the text drawn by
\* generate_user_messages goes through send_message, which logs it, logs one
\* entry per responding agent and returns the last five entries
SendUserMessage ==
    /\ jr_pc = "sending"
    /\ jr_sent < num_messages
    /\ \E msg \in user_message_choices(jr_events), outcome \in TravelOutcomes :
         /\ ~mentions_travel(msg) => outcome = "no_json"
         /\ IF mentions_travel(msg) /\ travel_raises(outcome)
            THEN /\ chat_len' = chat_len + 1
                 /\ jr_pc' = "raised"
                 /\ UNCHANGED <<weekly_conversations, jr_sent>>
            ELSE LET logged == chat_len + 1 + Cardinality(determine_responding_agents(msg))
                 IN /\ chat_len' = logged
                    /\ weekly_conversations' =
                         extend(weekly_conversations,
                                [i \in 1..Min(5, logged) |-> Turn(None, "chat")])
                    /\ jr_sent' = jr_sent + 1
                    /\ jr_pc' = "sending"
    /\ UNCHANGED <<current_state, state_at_call, jr_week, jr_events, num_messages,
                   report, saves, ca_pc, ca_events, ca_draw, ca_adherence>>

\* the end of simulate_week: the weekly report (adherence, micro-replan), the
\* three writes, the return
FinishWeek ==
    /\ jr_pc = "sending"
    /\ jr_sent = num_messages
    /\ \E draw \in Draws :
         LET out == generate_weekly_report(current_state, jr_week, jr_events,
                                           weekly_conversations, draw)
         IN /\ current_state' = out.state
            /\ weekly_conversations' = out.conversations
            /\ report' = out.report
            /\ saves' = saves \o week_writes(jr_week, out.report, chat_len, out.state)
    /\ jr_pc' = "returned"
    /\ UNCHANGED <<state_at_call, jr_week, jr_events, num_messages, jr_sent,
                   chat_len, ca_pc, ca_events, ca_draw, ca_adherence>>

\* _calculate_adherence on any list of events
CalculateAdherence ==
    /\ ca_pc = "idle"
    /\ jr_pc = "idle"
    /\ \E events \in EventLists, draw \in Draws :
         /\ ca_events' = events
         /\ ca_draw' = draw
         /\ ca_adherence' = _calculate_adherence(events, draw)
    /\ ca_pc' = "returned"
    /\ UNCHANGED <<jr_pc, current_state, state_at_call, jr_week, jr_events,
                   num_messages, jr_sent, weekly_conversations, chat_len, report,
                   saves>>

\* ------------------------------------------------------ GroupChatSystem
\* A logged text is a record: the member's words, or the kind of answer an
\* agent gave.  A context is None or a dict; travel_protocol tells whether
\* get_agent_responses has put the travel protocol in it.
ChatText(kind, words) == [kind |-> kind, words |-> words]

Context(kind, travel_protocol) == [kind |-> kind, travel_protocol |-> travel_protocol]
NoContext == Context("none", FALSE)
CallerContext == Context("dict", FALSE)
injury_context == Context("injury_event", FALSE)

Entry(sender, text, timestamp, context) ==
    [sender |-> sender, message |-> text, timestamp |-> timestamp, context |-> context]

\* self.conversation_history.append({...}) with the clock read by get_timestamp
log_entry(history, sender, text, context) ==
    Append(history, Entry(sender, text, Len(history) + 1, context))

\* handle_event_injection with its effect: only an injury is recorded
inject_event(history, msg) ==
    IF any_hint({"injury"}, msg_lower_of(msg))
    THEN log_entry(history, "System", ChatText("event", {"injury"}), injury_context)
    ELSE history

\* context["travel_protocol"] = ... on the caller's dict, or on a fresh one
with_travel_protocol(context) ==
    IF context.kind = "none" THEN Context("dict", TRUE)
    ELSE [context EXCEPT !.travel_protocol = TRUE]

\* the context the agents are given
with_travel_or_same(msg, context) ==
    IF mentions_travel(msg) THEN with_travel_protocol(context) ELSE context

\* what respond does for one agent: a reply, the failure sentinel, or an
\* exception of the completion client
RespondOutcomes == {"reply", "sentinel", "raises"}

\* try: respond(...) except Exception as e: f"Error: {str(e)}"
response_of(outcome) ==
    IF outcome = "raises" THEN ChatText("error", {}) ELSE ChatText(outcome, {})

\* conversation_history[-5:]
recent(history) == SubSeq(history, Max(1, Len(history) - 4), Len(history))

\* the dict of responses written to the log, in insertion order
RECURSIVE log_responses(_, _, _)
log_responses(history, responses, context) ==
    IF responses = <<>> THEN history
    ELSE log_responses(
             log_entry(history, Head(responses).agent, Head(responses).response, context),
             Tail(responses), context)

\* --- inputs of the chat
ChatWords == {"traveling", "painful", "@inject", "injury", "hello"}
ChatMessages == {m \in SUBSET ChatWords : Cardinality(m) <= MaxWords}
Senders == {"Rohan", "Ruby"}
ChatContexts == {NoContext, CallerContext}

NoneReturned == [none |-> TRUE, recent |-> <<>>]

ChatIdle ==
    /\ ch_pc = "idle"
    /\ chat_history = <<>>
    /\ ch_sender = ""
    /\ ch_message = {}
    /\ ch_context = NoContext
    /\ ch_agent_context = NoContext
    /\ ch_responding = {}
    /\ ch_responses = <<>>
    /\ ch_return = NoneReturned

\* send_message up to the call of get_agent_responses: the injection test and
\* the member's entry, which holds the context object it was given
SendMessage ==
    /\ ch_pc = "idle"
    /\ \E sender \in Senders, msg \in ChatMessages, context \in ChatContexts :
         LET logged == log_entry(chat_history, sender, ChatText("text", msg), context)
         IN /\ ch_sender' = sender
            /\ ch_message' = msg
            /\ ch_context' = context
            /\ IF handle_event_injection(msg)
               THEN /\ chat_history' = inject_event(chat_history, msg)
                    /\ ch_return' = NoneReturned
                    /\ ch_pc' = "returned"
               ELSE IF sender # "Rohan"
               THEN /\ chat_history' = logged
                    /\ ch_return' = [none |-> FALSE, recent |-> recent(logged)]
                    /\ ch_pc' = "returned"
               ELSE /\ chat_history' = logged
                    /\ ch_return' = NoneReturned
                    /\ ch_pc' = "logged"
    /\ ch_responding' = {}
    /\ ch_responses' = <<>>
    /\ ch_agent_context' = NoContext

\* the start of get_agent_responses: who answers, and the travel branch, which
\* can raise and which writes the protocol into the context
GetAgentResponses ==
    /\ ch_pc = "logged"
    /\ \E outcome \in TravelOutcomes :
         LET travel == mentions_travel(ch_message)
             updated == with_travel_or_same(ch_message, ch_context)
         IN /\ ~travel => outcome = "no_json"
            /\ ch_responding' = determine_responding_agents(ch_message)
            /\ IF travel /\ travel_raises(outcome)
               THEN /\ ch_pc' = "raised"
                    /\ UNCHANGED <<chat_history, ch_context, ch_agent_context>>
               ELSE \* a dict given by the caller is the one the logged entry
                    \* holds; for None get_agent_responses fills a dict of its own
                    /\ chat_history' =
                         IF ch_context.kind = "none" THEN chat_history
                         ELSE [chat_history EXCEPT ![Len(chat_history)].context = updated]
                    /\ ch_context' = IF ch_context.kind = "none" THEN ch_context
                                     ELSE updated
                    /\ ch_agent_context' = updated
                    /\ ch_pc' = "responding"
    /\ UNCHANGED <<ch_sender, ch_message, ch_responses, ch_return>>

\* one turn of the loop of get_agent_responses
AgentResponds ==
    /\ ch_pc = "responding"
    /\ \E agent_name \in ch_responding, outcome \in RespondOutcomes :
         /\ \A i \in 1..Len(ch_responses) : ch_responses[i].agent # agent_name
         /\ ch_responses' =
              Append(ch_responses, [agent |-> agent_name, response |-> response_of(outcome)])
    /\ UNCHANGED <<ch_pc, chat_history, ch_sender, ch_message, ch_context,
                   ch_agent_context, ch_responding, ch_return>>

\* the end of send_message: the answers are logged with the context
\* send_message was given, and the last five entries returned
LogResponses ==
    /\ ch_pc = "responding"
    /\ Len(ch_responses) = Cardinality(ch_responding)
    /\ LET logged == log_responses(chat_history, ch_responses, ch_context)
       IN /\ chat_history' = logged
          /\ ch_return' = [none |-> FALSE, recent |-> recent(logged)]
    /\ ch_pc' = "returned"
    /\ UNCHANGED <<ch_sender, ch_message, ch_context, ch_agent_context,
                   ch_responding, ch_responses>>

\* ------------------------------------------------------- LLMRouter.route
\* route without the final selected[:max_agents]
route_untruncated(raw_recs, n) ==
    LET selected == canonical_recs(raw_recs, <<>>)
    IN IF selected = <<>> THEN <<"Ruby">> ELSE selected

\* route on the recommendation list of the extraction
route(raw_recs, n) ==
    LET selected == canonical_recs(raw_recs, <<>>)
    IN SliceTo(IF selected = <<>> THEN <<"Ruby">> ELSE selected, n)

\* values the model can give for "recommended_agents": entries of a list
\* (names in several spellings, an unknown name, values that are no strings)
\* and values that are no list
RecEntries == RawNames \cup {"ruby"} \cup NonStrings
RecValues ==
    {JList(l) : l \in SeqsUpTo(RecEntries, MaxRecs)}
    \cup {JAbsent, JNull, JStr("Ruby"), JNum(1)}

RouteIdle ==
    /\ rt_pc = "idle"
    /\ rt_value = JAbsent
    /\ rt_raw_recs = <<>>
    /\ rt_max_agents = 0
    /\ rt_selected = <<>>

\* route(message, context, max_agents): extract_key_info keeps the model's
\* "recommended_agents" when it is a list, route normalizes it
Route ==
    /\ rt_pc = "idle"
    /\ an_pc = "idle"
    /\ \E v \in RecValues, n \in 0..MaxAgents :
         LET info == normalized([EmptyObject EXCEPT !.recommended_agents = v])
         IN /\ rt_value' = v
            /\ rt_raw_recs' = info.recommended_agents
            /\ rt_max_agents' = n
            /\ rt_selected' = route(info.recommended_agents, n)
    /\ rt_pc' = "returned"
    /\ UNCHANGED <<an_pc, an_key_info, an_max_agents, an_result>>

\* ---------------------------------------------- LLMRouter.analyze_message
\* (key_info.get("intent") or "").lower()
intent_lower(info) == IF info.intent = None THEN "" ELSE Lower(info.intent)

\* raw_issue.get(key) or default
or_default(v, default) == IF v = None \/ v = "" THEN default ELSE v

\* the owner of an issue, by its category
suggested_owner_of(category, selected) ==
    CASE category = "physio" -> "Rachel"
      [] category = "medical" -> "Dr. Warren"
      [] category = "nutrition" -> "Carla"
      [] category = "performance" -> "Advik"
      [] OTHER -> IF selected # <<>> THEN selected[1] ELSE "Ruby"

NoIssue ==
    [present |-> FALSE, title |-> "", category |-> "", severity |-> "",
     suggested_owner |-> None, recommended_followups |-> <<>>]

\* the standardized health issue ({} when the message is no issue)
health_issue_of(info, selected) ==
    IF ~info.is_health_issue THEN NoIssue
    ELSE LET raw_issue == info.health_issue
             category == or_default(raw_issue.category, "other")
             owner == suggested_owner_of(category, selected)
         IN [present |-> TRUE,
             title |-> or_default(raw_issue.title, ""),
             category |-> category,
             severity |-> or_default(raw_issue.severity, "medium"),
             suggested_owner |-> owner,
             recommended_followups |->
                 <<[type |-> "contact_agent", agent |-> owner],
                   [type |-> "track_issue", agent |-> "system"]>>]

Action(type, agent, priority) == [type |-> type, agent |-> agent, priority |-> priority]

\* recommended_next_actions with the non-issue agent taken from the
\* orchestrator's intent_map
recommended_next_actions_by_intent_map(info, health_issue) ==
    IF info.is_health_issue
    THEN <<Action("create_issue", None,
                  IF health_issue.present /\ health_issue.severity = "high"
                  THEN "high" ELSE "medium"),
           Action("contact_agent", health_issue.suggested_owner, None)>>
    ELSE <<Action("contact_agent",
                  IF intent_map(intent_lower(info)) = None THEN "Ruby"
                  ELSE intent_map(intent_lower(info)), None)>>

\* recommended_next_actions
recommended_next_actions(info, health_issue) ==
    IF info.is_health_issue
    THEN <<Action("create_issue", None,
                  IF health_issue.present /\ health_issue.severity = "high"
                  THEN "high" ELSE "medium"),
           Action("contact_agent", health_issue.suggested_owner, None)>>
    ELSE LET intent == intent_lower(info)
         IN <<Action("contact_agent",
                     CASE intent = "logistics" -> "Ruby"
                       [] intent = "nutrition" -> "Carla"
                       [] intent = "performance" -> "Advik"
                       [] intent = "physio" -> "Rachel"
                       [] OTHER -> "Ruby",
                     None)>>

\* analyze_message: the parts of its result that follow from the extraction
analyze_message(info, n) ==
    LET selected == route(info.recommended_agents, n)
        health_issue == health_issue_of(info, selected)
    IN [agents |-> selected,
        is_health_issue |-> info.is_health_issue,
        health_issue |-> health_issue,
        recommended_next_actions |-> recommended_next_actions(info, health_issue)]

\* extractions given to analyze_message
AnalyzeIntents == {"Nutrition", "performance", "physio", "logistics", "medical",
                   "other", None}
Categories == {None, "physio", "medical", "nutrition", "performance", "billing"}
Severities == {None, "high", "High", "low"}
Titles == {None, "knee pain"}
RawIssues ==
    {[title |-> t, category |-> c, severity |-> s] :
        t \in Titles, c \in Categories, s \in Severities}
EmptyIssue == [title |-> None, category |-> None, severity |-> None]
Extractions ==
    {[intent |-> i, is_health_issue |-> h, health_issue |-> hi,
      recommended_agents |-> r] :
        i \in AnalyzeIntents, h \in BOOLEAN, hi \in RawIssues,
        r \in SeqsUpTo(RawNames, MaxRecs)}

NoExtraction ==
    [intent |-> None, is_health_issue |-> FALSE, health_issue |-> EmptyIssue,
     recommended_agents |-> <<>>]

AnalyzeIdle ==
    /\ an_pc = "idle"
    /\ an_key_info = NoExtraction
    /\ an_max_agents = 0
    /\ an_result = analyze_message(NoExtraction, 0)

AnalyzeMessage ==
    /\ an_pc = "idle"
    /\ rt_pc = "idle"
    /\ \E info \in Extractions, n \in 0..MaxAgents :
         /\ ~info.is_health_issue => info.health_issue = EmptyIssue
         /\ an_key_info' = info
         /\ an_max_agents' = n
         /\ an_result' = analyze_message(info, n)
    /\ an_pc' = "returned"
    /\ UNCHANGED <<rt_pc, rt_value, rt_raw_recs, rt_max_agents, rt_selected>>

\* ------------------------------------------- IssueExtractor.extract_all
\* str(v) for the JSON values of the model
py_str(v) ==
    CASE v.t = "str" -> v.s
      [] v.t = "null" -> "None"
      [] v.t = "bool" -> IF v.b THEN "True" ELSE "False"
      [] OTHER -> ""

\* one entry of an "issues" list: a JSON object with its four values, or
\* a value that is no object
IssueEntry(isdict, title, details, category, severity) ==
    [isdict |-> isdict, title |-> title, details |-> details,
     category |-> category, severity |-> severity]
NoObjectEntry == IssueEntry(FALSE, JAbsent, JAbsent, JAbsent, JAbsent)

\* one entry of an "improvements" list
ImprovementEntry(isdict, title, details, related) ==
    [isdict |-> isdict, title |-> title, details |-> details,
     related_issue_title |-> related]

\* the JSON object of a model output
IssuesObject(issues, improvements) ==
    [issues |-> issues, improvements |-> improvements]
EmptyIssuesObject == IssuesObject(JAbsent, JAbsent)

\* _parse_json(raw): json.loads of the whole text, else of the text from the
\* first "{" to the last "}", else {}
_parse_json(text) ==
    CASE text.shape = "object" -> [t |-> "dict", obj |-> text.obj]
      [] text.shape = "array" -> [t |-> "list", obj |-> EmptyIssuesObject]
      [] text.shape = "null" -> [t |-> "null", obj |-> EmptyIssuesObject]
      [] text.shape = "number" -> [t |-> "num", obj |-> EmptyIssuesObject]
      [] text.shape = "string" -> [t |-> "str", obj |-> EmptyIssuesObject]
      [] text.shape = "text_with_object" -> [t |-> "dict", obj |-> text.obj]
      [] OTHER -> [t |-> "dict", obj |-> EmptyIssuesObject]

\* data.get(key) if isinstance(data.get(key), list) else []
list_or_empty(v) == IF v.t = "list" THEN v.items ELSE <<>>

\* the cleaned issue of one object entry (the strings of the model are
\* shorter than the limits of the slices)
clean_issue(it) ==
    LET category == Strip(py_str(Get(it.category, JStr("other"))))
        severity == Lower(Strip(py_str(Get(it.severity, JStr("medium")))))
    IN [title |-> Strip(py_str(Get(it.title, JStr("")))),
        details |-> Strip(py_str(Get(it.details, JStr("")))),
        category |-> IF category = "" THEN "other" ELSE category,
        severity |-> IF severity \notin {"low", "medium", "high"}
                     THEN "medium" ELSE severity]

RECURSIVE cleaned_issues(_, _)
cleaned_issues(issues, cleaned) ==
    IF issues = <<>> THEN cleaned
    ELSE LET it == Head(issues)
         IN cleaned_issues(Tail(issues),
                IF it.isdict /\ clean_issue(it).title # ""
                THEN Append(cleaned, clean_issue(it)) ELSE cleaned)

clean_improvement(it) ==
    LET related == Strip(py_str(Get(it.related_issue_title, JStr(""))))
    IN [title |-> Strip(py_str(Get(it.title, JStr("")))),
        details |-> Strip(py_str(Get(it.details, JStr("")))),
        related_issue_title |-> IF related = "" THEN None ELSE related]

RECURSIVE cleaned_improvements(_, _)
cleaned_improvements(improvements, cleaned) ==
    IF improvements = <<>> THEN cleaned
    ELSE LET it == Head(improvements)
         IN cleaned_improvements(Tail(improvements),
                IF it.isdict /\ clean_improvement(it).title # ""
                THEN Append(cleaned, clean_improvement(it)) ELSE cleaned)

Extracted(raised, issues, improvements) ==
    [raised |-> raised, issues |-> issues, improvements |-> improvements]

\* extract_all on the text of the completion client (or on its failure)
extract_all(text) ==
    IF text.shape = "call_raises" THEN Extracted("RuntimeError", <<>>, <<>>)
    ELSE LET data == _parse_json(text)
         IN IF data.t # "dict" THEN Extracted("AttributeError", <<>>, <<>>)
            ELSE Extracted(None,
                     cleaned_issues(list_or_empty(data.obj.issues), <<>>),
                     cleaned_improvements(list_or_empty(data.obj.improvements), <<>>))

\* model outputs
MaxIssues == 2
TitleValues == {JAbsent, JNull, JStr(""), JStr(" "), JStr("knee pain")}
SeverityValues == {JAbsent, JStr("High"), JStr("urgent")}
CategoryValues == {JAbsent, JStr(" ")}
IssueEntries ==
    {IssueEntry(TRUE, t, JAbsent, c, s) :
        t \in TitleValues, c \in CategoryValues, s \in SeverityValues}
    \cup {NoObjectEntry}
IssuesValues ==
    {JList(l) : l \in SeqsUpTo(IssueEntries, MaxIssues)}
    \cup {JAbsent, JNull, JStr("none")}
ImprovementsValues ==
    {JAbsent,
     JList(<<ImprovementEntry(FALSE, JAbsent, JAbsent, JAbsent)>>),
     JList(<<ImprovementEntry(TRUE, JStr("sleeping better"), JAbsent, JAbsent)>>),
     JList(<<ImprovementEntry(TRUE, JAbsent, JAbsent, JStr("knee pain"))>>)}
IssueTexts ==
    {[shape |-> sh, obj |-> IssuesObject(i, m)] :
        sh \in {"object", "text_with_object"}, i \in IssuesValues,
        m \in ImprovementsValues}
    \cup {[shape |-> sh, obj |-> EmptyIssuesObject] :
            sh \in {"array", "null", "number", "string", "text",
                    "text_with_broken_object", "call_raises"}}

IssueIdle ==
    /\ is_pc = "idle"
    /\ is_raw = [shape |-> "text", obj |-> EmptyIssuesObject]
    /\ is_result = Extracted(None, <<>>, <<>>)

ExtractAll ==
    /\ is_pc = "idle"
    /\ \E text \in IssueTexts :
         /\ is_raw' = text
         /\ is_result' = extract_all(text)
         /\ is_pc' = IF extract_all(text).raised = None THEN "returned" ELSE "raised"

\* ------------------------------------------------------ specifications
Idle ==
    /\ OrchIdle /\ ExtIdle /\ PlanIdle /\ ClientIdle /\ RespondIdle /\ JourneyIdle
    /\ ChatIdle /\ RouteIdle /\ AnalyzeIdle /\ IssueIdle

\* orchestrate on every message and extraction result of the bounds
InitOrch == Idle
NextOrch ==
    Orchestrate /\ UNCHANGED <<extVars, planVars, clientVars, respondVars, journeyVars, chatVars, routeVars, issueVars>>
SpecOrch == InitOrch /\ [][NextOrch]_vars

\* any sequence of extract_key_info calls
InitExtract == Idle
NextExtract ==
    ExtractKeyInfo /\ UNCHANGED <<orchVars, planVars, clientVars, respondVars, journeyVars, chatVars, routeVars, issueVars>>
SpecExtract == InitExtract /\ [][NextExtract]_vars

\* extract_key_info calls from two router instances, the same message and
\* context given in several forms
InitMemo == Idle
NextMemo ==
    ExtractKeyInfoAgain /\ UNCHANGED <<orchVars, planVars, clientVars, respondVars, journeyVars, chatVars, routeVars, issueVars>>
SpecMemo == InitMemo /\ [][NextMemo]_vars

\* extract_key_info calls with ever new messages, and calls with the oldest
\* message cached
InitCache == Idle
NextCache ==
    \/ ExtractKeyInfoNew /\ UNCHANGED <<orchVars, planVars, clientVars, respondVars, journeyVars, chatVars, routeVars, issueVars>>
    \/ ExtractKeyInfoOld /\ UNCHANGED <<orchVars, planVars, clientVars, respondVars, journeyVars, chatVars, routeVars, issueVars>>
SpecCache == InitCache /\ [][NextCache]_vars

\* execute_plan on every plan of the bounds
InitPlan == Idle
NextPlan ==
    ExecutePlan /\ UNCHANGED <<orchVars, extVars, clientVars, respondVars, journeyVars, chatVars, routeVars, issueVars>>
SpecPlan == InitPlan /\ [][NextPlan]_vars

\* call_openrouter under every environment, message list and status sequence
InitClient == Idle
NextClient ==
    \/ CallOpenrouter /\ UNCHANGED <<orchVars, extVars, planVars, respondVars, journeyVars, chatVars, routeVars, issueVars>>
    \/ Post /\ UNCHANGED <<orchVars, extVars, planVars, respondVars, journeyVars, chatVars, routeVars, issueVars>>
SpecClient == InitClient /\ [][NextClient]_vars

\* respond calls on one agent, with every sequence of completion outputs
InitRespond == Idle
NextRespond ==
    \/ NewAgent /\ UNCHANGED <<orchVars, extVars, planVars, clientVars, journeyVars, chatVars, routeVars, issueVars>>
    \/ Respond /\ UNCHANGED <<orchVars, extVars, planVars, clientVars, journeyVars, chatVars, routeVars, issueVars>>
    \/ RespondAttempt /\ UNCHANGED <<orchVars, extVars, planVars, clientVars, journeyVars, chatVars, routeVars, issueVars>>
    \/ RespondCallFails /\ UNCHANGED <<orchVars, extVars, planVars, clientVars, journeyVars, chatVars, routeVars, issueVars>>
    \/ RespondGiveUp /\ UNCHANGED <<orchVars, extVars, planVars, clientVars, journeyVars, chatVars, routeVars, issueVars>>
SpecRespond == InitRespond /\ [][NextRespond]_vars

\* one journey orchestrator: construction, then one simulated week; and
\* _calculate_adherence on every list of events
InitJourney == Idle
NextJourney ==
    \/ NewJourneyOrchestrator /\ UNCHANGED <<orchVars, extVars, planVars, clientVars, respondVars, chatVars, routeVars, issueVars>>
    \/ SimulateWeek /\ UNCHANGED <<orchVars, extVars, planVars, clientVars, respondVars, chatVars, routeVars, issueVars>>
    \/ SendUserMessage /\ UNCHANGED <<orchVars, extVars, planVars, clientVars, respondVars, chatVars, routeVars, issueVars>>
    \/ FinishWeek /\ UNCHANGED <<orchVars, extVars, planVars, clientVars, respondVars, chatVars, routeVars, issueVars>>
    \/ CalculateAdherence /\ UNCHANGED <<orchVars, extVars, planVars, clientVars, respondVars, chatVars, routeVars, issueVars>>
SpecJourney == InitJourney /\ [][NextJourney]_vars

\* one send_message call on a new group chat, with every outcome of the
\* completion client
InitChat == Idle
NextChat ==
    \/ SendMessage /\ UNCHANGED <<orchVars, extVars, planVars, clientVars, respondVars, journeyVars, routeVars, issueVars>>
    \/ GetAgentResponses /\ UNCHANGED <<orchVars, extVars, planVars, clientVars, respondVars, journeyVars, routeVars, issueVars>>
    \/ AgentResponds /\ UNCHANGED <<orchVars, extVars, planVars, clientVars, respondVars, journeyVars, routeVars, issueVars>>
    \/ LogResponses /\ UNCHANGED <<orchVars, extVars, planVars, clientVars, respondVars, journeyVars, routeVars, issueVars>>
SpecChat == InitChat /\ [][NextChat]_vars

\* route and analyze_message on every extraction of the bounds
InitRoute == Idle
NextRoute ==
    \/ Route /\ UNCHANGED <<orchVars, extVars, planVars, clientVars, respondVars, journeyVars, chatVars, issueVars>>
    \/ AnalyzeMessage /\ UNCHANGED <<orchVars, extVars, planVars, clientVars, respondVars, journeyVars, chatVars, issueVars>>
SpecRoute == InitRoute /\ [][NextRoute]_vars

\* extract_all on every model output of the bounds
InitIssues == Idle
NextIssues ==
    ExtractAll /\ UNCHANGED <<orchVars, extVars, planVars, clientVars, respondVars, journeyVars, chatVars, routeVars>>
SpecIssues == InitIssues /\ [][NextIssues]_vars

\* ------------------------------------------------ claims on orchestrate
Agents(decision) == [i \in 1..Len(decision) |-> decision[i].agent]

AllHints == physio_hints_local \cup physio_hints \cup medical_hints
                \cup nutrition_hints \cup performance_hints

IsPrimaryStrategy(st) == st.reason = "primary_agent"

IsWaitingStrategy(st) ==
    st.wait_for_user = TRUE /\ st.wait_for_event = "primary_response_or_handoff"

\* C1: for a message containing any keyword of the strong physio override and
\* max_agents >= 1, the decision starts with Rachel and does not contain Carla.
C1_PhysioFirstNoCarla ==
    (/\ orch_pc = "returned"
     /\ max_agents >= 1
     /\ any_hint(physio_hints_local, msg_lower_of(message)))
    => /\ orchestrated # <<>>
       /\ orchestrated[1].agent = "Rachel"
       /\ ~InSeq("Carla", Agents(orchestrated))

ExclusionApplies(info, n) ==
    LET kept == SliceTo(canonical_recs(info.recommended_agents, <<>>), n)
    IN \/ Lower(info.intent) = "physio" /\ InSeq("Carla", kept)
       \/ Lower(info.intent) = "nutrition" /\ InSeq("Rachel", kept)

C4_SinglePrimary ==
    (orch_pc = "returned" /\ max_agents >= 1)
    => /\ orchestrated # <<>>
       /\ \A i \in 1..Len(orchestrated) :
             /\ IsPrimaryStrategy(orchestrated[i].strategy) <=> i = 1
             /\ (i > 1 /\ orchestrated[i].agent # "Ruby")
                   => IsWaitingStrategy(orchestrated[i].strategy)
             /\ ~orchestrated[i].strategy.wait_for_user
                   => (i = 1 \/ orchestrated[i].agent = "Ruby")

C4_Witness ==
    /\ orch_pc = "returned"
    /\ max_agents >= 1
    /\ Len(orchestrated) = 3
    /\ orchestrated[2].agent = "Ruby"
    /\ ~orchestrated[2].strategy.wait_for_user
    /\ IsWaitingStrategy(orchestrated[3].strategy)

\* C5: when Ruby is selected and is not the primary, she asks a clarifying
\* question (not waiting) exactly when confidence < 0.7 or the extraction has
\* no summary (empty once stripped) and no entities; otherwise she waits.
C5_RubyStrategy ==
    orch_pc = "returned"
    => \A i \in 1..Len(orchestrated) :
          (i > 1 /\ orchestrated[i].agent = "Ruby")
          => LET st == orchestrated[i].strategy
                 unclear == \/ key_info.confidence < 70
                            \/ Strip(key_info.summary) = "" /\ key_info.entities = {}
             IN IF unclear
                THEN st.action = "ask_clarifying_question" /\ st.wait_for_user = FALSE
                ELSE st.action = None /\ st.wait_for_user = TRUE

C5_Witness ==
    /\ orch_pc = "returned"
    /\ Len(orchestrated) >= 2
    /\ orchestrated[2].agent = "Ruby"
    /\ key_info.confidence = 70
    /\ key_info.summary = ""
    /\ key_info.entities = {}
    /\ orchestrated[2].strategy.action = "ask_clarifying_question"

\* the words of the message matched by a promotion hint set
Matches(hints) == any_hint(hints, msg_lower_of(message))

C29_AtMostMaxAgents ==
    orch_pc = "returned" => Len(orchestrated) <= max_agents

\* ------------------------------------------- claims on extract_key_info
\* C3: no result returned by extract_key_info, fresh or cached, has both flags
\* true; when the model output sets both, is_health_issue stays true and
\* is_improvement is false.
C3_FlagsExclusive ==
    /\ \A i \in 1..Len(_extract_cache) :
          ~(_extract_cache[i].value.is_health_issue
              /\ _extract_cache[i].value.is_improvement)
    /\ ext_pc = "returned"
       => /\ ~(result.is_health_issue /\ result.is_improvement)
          /\ (/\ llm_called
              /\ raw.shape \in {"object", "text_with_object"}
              /\ Truthy(raw.obj.is_health_issue)
              /\ Truthy(raw.obj.is_improvement))
             => (result.is_health_issue /\ ~result.is_improvement)

C3_Witness ==
    /\ ext_pc = "returned"
    /\ llm_called
    /\ raw.shape = "object"
    /\ raw.obj.is_health_issue = JBool(TRUE)
    /\ raw.obj.is_improvement = JBool(TRUE)
    /\ result.is_health_issue
    /\ ~result.is_improvement
    /\ \E i \in 1..Len(_extract_cache) : _extract_cache[i].value = result

\* the completion text holds no JSON object that decodes
Undecodable(text) ==
    text.shape \in {"array", "text", "text_with_two_objects", "text_with_broken_object"}

\* C7: extract_key_info never propagates an exception whatever the completion
\* text is, and returns the default result when nothing can be decoded.
C7_NeverRaises ==
    /\ ext_pc # "raised"
    /\ ext_raised = None
    /\ (ext_pc = "returned" /\ llm_called /\ Undecodable(raw)) => result = DefaultResult

\* C25: in the result of extract_key_info a flag is true only when the model
\* returned the boolean true for it; a value of any other type (a string, a
\* number, a list) gives false.
C25_FlagsOnlyForTrue ==
    (ext_pc = "returned" /\ llm_called /\ raw.shape \in {"object", "text_with_object"})
    => /\ result.is_health_issue => raw.obj.is_health_issue = JBool(TRUE)
       /\ result.is_improvement => raw.obj.is_improvement = JBool(TRUE)

\* C22: after any sequence of extract_key_info calls, on any number of
\* distinct keys, the extraction cache holds at most 128 entries.
C22_CacheBounded == Len(_extract_cache) <= 128

\* the cache entry was made by a call with this message (up to surrounding
\* whitespace) and this context (up to the order of its keys; None as {})
MadeBy(entry, m, context) ==
    /\ StripMessage(entry.key[1]) = StripMessage(m)
    /\ {entry.key[2][i] : i \in 1..Len(entry.key[2])}
         = {context.items[i] : i \in 1..Len(context.items)}

\* C23: a call with the message and the context of an entry still cached
\* (the message equal after stripping, the context equal after key-sorted
\* serialization) returns the result the entry's call returned and does not
\* invoke the completion client, whichever router instance makes the call; a
\* call that invokes the client and returns caches what it returns.
C23_SecondCallFromCache ==
    [][/\ \A i \in 1..Len(_extract_cache) :
             MadeBy(_extract_cache[i], ext_message', ext_context')
             => /\ ext_pc' = "returned"
                /\ ~llm_called'
                /\ result' = _extract_cache[i].value
                /\ _extract_cache' = _extract_cache
       /\ (llm_called' /\ ext_pc' = "returned")
             => /\ _extract_cache' # <<>>
                /\ _extract_cache'[Len(_extract_cache')].value = result'
                /\ MadeBy(_extract_cache'[Len(_extract_cache')],
                          ext_message', ext_context')]_vars

\* a hit by the other instance, the message given with surrounding blanks and
\* the context in sorted order, on an entry that is not the newest
C23_Witness ==
    /\ ext_pc = "returned"
    /\ ~llm_called
    /\ ext_router = "other_router"
    /\ ext_message = " hi "
    /\ ext_context = ExtContext(TRUE, <<<<"events", "none">>, <<"week", "1">>>>)
    /\ Len(_extract_cache) >= 2
    /\ MadeBy(_extract_cache[1], ext_message, ext_context)
    /\ result = _extract_cache[1].value
    /\ result.confidence = 90

\* ----------------------------------------------- claims on execute_plan
\* the entries of the plan whose completion call is made
Invoked(p, i) == ~p[i].strategy.wait_for_user /\ InSeq(p[i].agent, agent_instances)

\* C6: execute_plan never raises and returns one result per plan entry, in plan
\* order; an entry whose completion call fails or whose agent is not registered
\* gets a null result and the later entries are still processed.
C6_OneResultPerEntry ==
    plan_pc # "idle"
    => /\ plan_pc = "returned"
       /\ plan_raised = None
       /\ Len(results) = Len(plan)
       /\ \A i \in 1..Len(plan) :
             /\ results[i].agent = plan[i].agent
             /\ results[i].strategy = plan[i].strategy
             /\ results[i].result =
                   IF Invoked(plan, i) /\ plan_outcomes[i].raises = None
                   THEN plan_outcomes[i].text ELSE None
       /\ Len(plan_calls) = Cardinality({i \in 1..Len(plan) : Invoked(plan, i)})

C6_Witness ==
    /\ plan_pc = "returned"
    /\ Len(plan) = 2
    /\ Invoked(plan, 1)
    /\ Invoked(plan, 2)
    /\ plan_outcomes[1].raises = "RuntimeError"
    /\ results[1].result = None
    /\ results[2].result = "reply"

\* the plan entries that do not wait and whose agent has an instance
ToInvoke(p) ==
    SelectSeq(p, LAMBDA item : /\ ~item.strategy.wait_for_user
                               /\ InSeq(item.agent, agent_instances))

\* C27: execute_plan never invokes the completion client for an entry whose
\* strategy says wait: the entry gets a null result in the same pass, and the
\* completion calls that are made are those of the other entries, one after
\* the other in plan order.
C27_WaitingEntriesSkipped ==
    plan_pc = "returned"
    => /\ Len(results) = Len(plan)
       /\ \A i \in 1..Len(plan) :
             plan[i].strategy.wait_for_user
             => /\ results[i].agent = plan[i].agent
                /\ results[i].result = None
       /\ plan_calls = [k \in 1..Len(ToInvoke(plan)) |-> ToInvoke(plan)[k].agent]

\* a waiting entry between two entries that are invoked and answer
C27_Witness ==
    /\ plan_pc = "returned"
    /\ Len(plan) = 3
    /\ ~plan[1].strategy.wait_for_user /\ plan[1].agent = "Rachel"
    /\ plan[2].strategy.wait_for_user /\ plan[2].agent = "Ruby"
    /\ ~plan[3].strategy.wait_for_user /\ plan[3].agent = "Ruby"
    /\ plan_outcomes[2].raises = None
    /\ plan_calls = <<"Rachel", "Ruby">>
    /\ results[1].result = "reply"
    /\ results[2].result = None
    /\ results[3].result = "reply"

\* -------------------------------------------- claims on call_openrouter
MockMode(e) ==
    \/ StripEnv(e.USE_MOCK_RESPONSES) \in {"1", "true", "True"}
    \/ e.OPENROUTER_API_KEY \in {Unset, ""}

LastUserContent(messages) ==
    IF \E i \in 1..Len(messages) : messages[i].role = "user"
    THEN messages[CHOOSE i \in 1..Len(messages) :
                     /\ messages[i].role = "user"
                     /\ \A j \in (i + 1)..Len(messages) : messages[j].role # "user"].content
    ELSE <<>>

\* C10: with the mock flag set or the credential absent, call_openrouter makes
\* no network call and returns a text holding the agent's name and the first
\* 160 characters of the last user turn (empty without a user turn).
C10_MockEcho ==
    (cl_pc # "idle" /\ MockMode(env))
    => /\ cl_pc = "returned"
       /\ posts = 0
       /\ statuses = <<>>
       /\ cl_return.kind = "mock"
       /\ cl_return.name = cl_agent.name
       /\ LET content == LastUserContent(cl_messages)
          IN /\ Len(cl_return.echo) = (IF Len(content) < 160 THEN Len(content) ELSE 160)
             /\ \A i \in 1..Len(cl_return.echo) : cl_return.echo[i] = content[i]

C10_Witness ==
    /\ cl_pc = "returned"
    /\ env.OPENROUTER_API_KEY = Unset
    /\ env.USE_MOCK_RESPONSES = "0"
    /\ Len(cl_messages) = 2
    /\ cl_messages[1].role = "user"
    /\ Len(cl_messages[1].content) = 161
    /\ cl_messages[2].role = "system"
    /\ cl_return.name = "Ruby"
    /\ Len(cl_return.echo) = 160

\* ---------------------------------------------------- claims on respond
\* the output parses and validates
Accepted(has_schema, output) ==
    \/ output \in {"valid_object", "valid_object_in_prose"}
    \/ output = "schema_violating_object" /\ ~has_schema

\* C8: respond never raises because of malformed model output; it calls the
\* completion client at most 3 times and stops at the first output that parses
\* and validates; after 3 failures it returns the failure sentinel and appends
\* exactly one record (user message, sentinel) to the conversation history.
C8_BoundedRetries ==
    LET calls == Len(rs_outputs)
        failures == {i \in 1..calls : rs_outputs[i] # "RuntimeError"
                                        /\ ~Accepted(schema, rs_outputs[i])}
    IN /\ calls <= 3
       /\ \A i \in 1..(calls - 1) : i \in failures
       /\ rs_pc = "raised" => (calls >= 1 /\ rs_outputs[calls] = "RuntimeError")
       /\ rs_pc = "loop" => failures = 1..calls
       /\ rs_pc = "returned"
          => \/ /\ calls >= 1
                /\ Accepted(schema, rs_outputs[calls])
                /\ rs_return # "Failed to get a valid JSON response after multiple retries."
             \/ /\ calls = 3
                /\ failures = 1..3
                /\ rs_return = "Failed to get a valid JSON response after multiple retries."
                /\ conversation_history =
                      Append(history_before,
                             [user |-> user_message,
                              assistant |-> "Failed to get a valid JSON response after multiple retries."])

C8_Witness ==
    /\ rs_pc = "returned"
    /\ schema
    /\ rs_outputs = <<"prose", "schema_violating_object", "two_objects">>
    /\ rs_return = final_error
    /\ Len(conversation_history) = Len(history_before) + 1

\* ------------------------------------------- claims on the simulated week
\* simulate_week has computed the week's events (and run the diagnostic
\* sub-protocol when the week has one)
WeekStarted == jr_pc \in {"sending", "returned", "raised"}

HasEvent(e) == InSeq(e, jr_events)

DiagnosticWeek == jr_week \in {12, 24, 34}

\* C11: generate_weekly_events applies one calendar rule per week, the first
\* that matches in the order week 1, weeks {12, 24, 34}, week 10, weeks
\* divisible by 4, even weeks: weeks 12 and 24 hold only the quarterly
\* diagnostic, week 10 only the leg injury, and no week holds both business
\* travel and a leg injury.
C11_OneRulePerWeek ==
    WeekStarted =>
        /\ jr_week = 1 =>
             jr_events = <<"onboarding_complete", "initial_blood_test_high_sugar">>
        /\ DiagnosticWeek => jr_events = <<"quarterly_diagnostic_test">>
        /\ jr_week = 10 => jr_events = <<"leg_injury_reported">>
        /\ jr_week # 1 => Len(jr_events) <= 1
        /\ HasEvent("business_travel") <=>
             (jr_week % 4 = 0 /\ ~DiagnosticWeek)
        /\ HasEvent("exercise_plan_update") <=>
             (jr_week % 2 = 0 /\ jr_week % 4 # 0 /\ jr_week # 10 /\ ~DiagnosticWeek)
        /\ ~(HasEvent("business_travel") /\ HasEvent("leg_injury_reported"))

\* week 24, which is also divisible by 4, has been simulated
C11_Witness ==
    /\ jr_pc = "returned"
    /\ jr_week = 24
    /\ jr_events = <<"quarterly_diagnostic_test">>

PanelsBefore == state_at_call.diagnostic_panels
PanelsNow == current_state.diagnostic_panels
NewPanel == PanelsNow[Len(PanelsNow)]

\* C12: simulate_week appends exactly one DiagnosticPanel in weeks 12, 24 and
\* 34 and none in any other week; the panel has the week's number, A1C
\* 6.2 - 0.03 * week with two decimals (5.84 in week 12) and Triglycerides
\* 150 - 1.5 * week.
C12_OnePanelPerDiagnosticWeek ==
    WeekStarted =>
        IF DiagnosticWeek
        THEN /\ Len(PanelsNow) = Len(PanelsBefore) + 1
             /\ SubSeq(PanelsNow, 1, Len(PanelsBefore)) = PanelsBefore
             /\ NewPanel.week = jr_week
             /\ NewPanel.results["A1C"] = SNum(2, 620 - 3 * jr_week)
             /\ jr_week = 12 => NewPanel.results["A1C"].v = 584
             /\ NewPanel.results["Triglycerides"].t = "num"
             /\ NewPanel.results["Triglycerides"].d = 0
             /\ 2 * NewPanel.results["Triglycerides"].v = 300 - 3 * jr_week
        ELSE PanelsNow = PanelsBefore

\* week 12 has been simulated on top of a stored panel
C12_Witness ==
    /\ jr_pc = "returned"
    /\ jr_week = 12
    /\ Len(PanelsBefore) = 1
    /\ Len(PanelsNow) = 2
    /\ NewPanel.results["A1C"].v = 584
    /\ NewPanel.results["Triglycerides"].v = 132

\* the number a rendered string denotes, in hundredths
Hundredths(sv) == IF sv.d = 0 THEN 100 * sv.v ELSE sv.v

IsNumber(sv) == sv.t = "num"

\* C13: the delta of a new panel is computed against the last panel of the
\* journey state and no earlier one: current minus prior with an explicit
\* sign for a biomarker present in both (N/A when a value is no number), no
\* key for a biomarker the prior panel lacks, and empty without a prior panel.
C13_DeltaAgainstLastPanel ==
    (WeekStarted /\ DiagnosticWeek) =>
        IF PanelsBefore = <<>>
        THEN \A k \in Biomarkers : NewPanel.delta[k].t = "absent"
        ELSE LET prior == PanelsBefore[Len(PanelsBefore)].results
                 current == NewPanel.results
             IN \A k \in Biomarkers :
                  IF prior[k].t = "absent" THEN NewPanel.delta[k].t = "absent"
                  ELSE IF IsNumber(current[k]) /\ IsNumber(prior[k])
                  THEN /\ NewPanel.delta[k].t = "signed"
                       /\ NewPanel.delta[k].v =
                            Hundredths(current[k]) - Hundredths(prior[k])
                       /\ NewPanel.delta[k].s =
                            IF Hundredths(current[k]) < Hundredths(prior[k])
                            THEN "-" ELSE "+"
                  ELSE NewPanel.delta[k] = SText("N/A")

\* week 24 simulated on a state whose two stored panels differ: the delta is
\* the one against the second
C13_Witness ==
    /\ jr_pc = "returned"
    /\ jr_week = 24
    /\ PanelsBefore = <<LegacyPanel, GeneratedPanel>>
    /\ NewPanel.delta["A1C"] = Sv("signed", 2, -36, "-")
    /\ NewPanel.delta["Focus Area"] = SText("N/A")

\* the sum the adherence starts from, for a list of events
PenalizedBase(events) ==
    850 - (IF InSeq("business_travel", events) THEN 200 ELSE 0)
        - (IF InSeq("leg_injury_reported", events) THEN 300 ELSE 0)

\* C14: for every event list and every draw in [0, 0.15] the adherence of
\* _calculate_adherence, reported as adherence_rate, lies in [0, 1]: 0.85
\* minus 0.2 for business travel, minus 0.3 for a leg injury, minus the draw,
\* and 0 when that sum is negative.
C14_AdherenceInUnitInterval ==
    /\ ca_pc = "returned" =>
         /\ ca_adherence >= 0 /\ ca_adherence <= 1000
         /\ ca_adherence = IF PenalizedBase(ca_events) - ca_draw < 0 THEN 0
                           ELSE PenalizedBase(ca_events) - ca_draw
    /\ jr_pc = "returned" =>
         /\ report.adherence_rate >= 0 /\ report.adherence_rate <= 1000
         /\ \E draw \in 0..150 :
              report.adherence_rate =
                  IF PenalizedBase(jr_events) - draw < 0 THEN 0
                  ELSE PenalizedBase(jr_events) - draw

\* both penalties and the largest draw
C14_Witness ==
    /\ ca_pc = "returned"
    /\ InSeq("business_travel", ca_events)
    /\ InSeq("leg_injury_reported", ca_events)
    /\ ca_draw = 150
    /\ ca_adherence = 200

ReplansBefore == state_at_call.micro_replans
ReplansNow == current_state.micro_replans

\* C15: in a simulated week micro_replans grows by exactly one entry, with the
\* week's number, if the reported adherence_rate is below 0.6, and is left
\* unchanged otherwise.
C15_ReplanIffLowAdherence ==
    /\ jr_pc \in {"sending", "raised"} => ReplansNow = ReplansBefore
    /\ jr_pc = "returned" =>
         IF report.adherence_rate < 600
         THEN /\ Len(ReplansNow) = Len(ReplansBefore) + 1
              /\ SubSeq(ReplansNow, 1, Len(ReplansBefore)) = ReplansBefore
              /\ ReplansNow[Len(ReplansNow)].week = jr_week
         ELSE ReplansNow = ReplansBefore

\* a travel week just below the threshold
C15_Witness ==
    /\ jr_pc = "returned"
    /\ jr_week = 8
    /\ report.adherence_rate = 599
    /\ Len(ReplansNow) = Len(ReplansBefore) + 1

\* C16: a simulate_week call that returns has saved the weekly report, the
\* full conversation history and the journey state, once each and in that
\* order, after all the week's mutations: the state written for the week holds
\* the panel and the replan created in it, and nothing is written before.
C16_WriteThroughEveryWeek ==
    /\ jr_pc \in {"idle", "ready", "sending", "raised"} => saves = <<>>
    /\ jr_pc = "returned" =>
         /\ Len(saves) = 3
         /\ \A i \in 1..3 : saves[i].week = jr_week
         /\ saves[1].op = "save_weekly_report"
         /\ saves[1].payload = report
         /\ saves[2].op = "save_conversation_history"
         /\ saves[2].payload = chat_len
         /\ saves[3].op = "save_journey_state"
         /\ saves[3].payload = current_state
         /\ DiagnosticWeek =>
              LET written == saves[3].payload.diagnostic_panels
              IN written # <<>> /\ written[Len(written)].week = jr_week
         /\ report.adherence_rate < 600 =>
              LET written == saves[3].payload.micro_replans
              IN written # <<>> /\ written[Len(written)].week = jr_week

\* the injury week: a replan was created and is in the state written
C16_Witness ==
    /\ jr_pc = "returned"
    /\ jr_week = 10
    /\ Len(saves) = 3
    /\ Len(saves[3].payload.micro_replans) = Len(ReplansBefore) + 1

\* C21: a MicroReplan created in week w has version v{w}.{n}, n being 1 plus
\* the number of replans recorded during this run: the first replan of a run
\* has ordinal 1 even when the state loaded at construction holds replans of an
\* earlier run.  (The call of the model is the first of its run, so the state
\* at the call is the loaded one.)
C21_OrdinalCountsThisRun ==
    (jr_pc = "returned" /\ Len(ReplansNow) > Len(ReplansBefore))
    => ReplansNow[Len(ReplansNow)].version = <<jr_week, 1>>

\* C28: in a week with a quarterly diagnostic the sub-protocol is complete
\* (panel appended, scripted turns recorded) before the first user message is
\* sent, and in the week's conversation every scripted diagnostic turn comes
\* before every turn of the user-message pipeline.
C28_DiagnosticBeforeMessages ==
    (WeekStarted /\ HasEvent("quarterly_diagnostic_test"))
    => LET c == weekly_conversations
           scripted == Len(scripted_before) + Len(scripted_after)
       IN /\ Len(PanelsNow) = Len(PanelsBefore) + 1
          /\ Len(c) >= scripted
          /\ \A i \in 1..Len(c) : c[i].source = "diagnostic" <=> i <= scripted
          /\ \A i, j \in 1..Len(c) :
                (c[i].source = "diagnostic" /\ c[j].source = "chat") => i < j

C28_Witness ==
    /\ jr_pc = "sending"
    /\ HasEvent("quarterly_diagnostic_test")
    /\ jr_sent = 1
    /\ Len(weekly_conversations) > 7
    /\ weekly_conversations[7].source = "diagnostic"
    /\ weekly_conversations[8].source = "chat"

\* C30: a simulate_week call of week 10 (the leg injury) always creates a
\* micro-replan, and a call of a week with neither business travel nor a leg
\* injury never does, whatever the draws: replans appear only in week 10 and
\* in business-travel weeks.
C30_ReplanOnlyAfterPenalty ==
    jr_pc = "returned"
    => /\ jr_week = 10 => Len(ReplansNow) = Len(ReplansBefore) + 1
       /\ (~HasEvent("business_travel") /\ ~HasEvent("leg_injury_reported"))
             => ReplansNow = ReplansBefore
       /\ ReplansNow # ReplansBefore
             => \/ jr_week = 10
                \/ jr_week % 4 = 0 /\ jr_week \notin {12, 24, 34}

C30_Witness ==
    /\ jr_pc = "returned"
    /\ jr_week = 10
    /\ report.adherence_rate = 550
    /\ Len(ReplansNow) = Len(ReplansBefore) + 1
    /\ ReplansNow[Len(ReplansNow)].week = 10

\* ---------------------------------------------- claims on the group chat
Responding == determine_responding_agents(ch_message)

\* C17: for every message the member sends through send_message, whatever the
\* completion client does on any of its calls (the travel-detail extraction
\* included), send_message returns without raising and the log gains the
\* member's entry followed by exactly one entry per responding agent, holding
\* a reply, the failure sentinel or an error string.  (Stated for the texts
\* that are not event-injection commands, which send_message consumes
\* without logging them.)
C17_SendMessageNeverRaises ==
    (ch_sender = "Rohan" /\ ~handle_event_injection(ch_message)) =>
        /\ ch_pc # "raised"
        /\ ch_pc = "returned" =>
             /\ Len(chat_history) = 1 + Cardinality(Responding)
             /\ chat_history[1].sender = "Rohan"
             /\ chat_history[1].message = ChatText("text", ch_message)
             /\ \A a \in Responding :
                  Cardinality({i \in 2..Len(chat_history) : chat_history[i].sender = a}) = 1
             /\ \A i \in 2..Len(chat_history) :
                  chat_history[i].message.kind \in {"reply", "sentinel", "error"}


\* C26: the conversation log is append-only and its entries are immutable:
\* no step of send_message changes the position, sender, text, timestamp or
\* context of an entry already logged, the context of the member's entry during
\* the processing of that same message included.
C26_LogAppendOnly ==
    [][/\ Len(chat_history') >= Len(chat_history)
       /\ \A i \in 1..Len(chat_history) : chat_history'[i] = chat_history[i]]_vars

\* ------------------------------------------------------- claims on route
\* a recommendation entry that names a registered agent, in any case
Names(r, a) == IsStr(r) /\ Registered(a) /\ Lower(a) = Lower(r)

\* the registered agents a recommendation list names
Survivors(recs) ==
    {a \in {agent_descriptions[k] : k \in 1..Len(agent_descriptions)} :
        \E i \in 1..Len(recs) : Names(recs[i], a)}

\* where a recommendation list first names an agent
FirstAt(a, recs) ==
    CHOOSE i \in 1..Len(recs) :
        /\ Names(recs[i], a)
        /\ \A j \in 1..(i - 1) : ~Names(recs[j], a)

\* C18: route returns only registered names in canonical spelling, without
\* duplicates, in the order of the extractor's list and at most max_agents of
\* them; names match without regard to case, unknown entries and entries that
\* are not strings are dropped, and [Ruby] is returned when no name survives
\* (for max_agents >= 1).
C18_RouteCanonical ==
    rt_pc = "returned"
    => LET S == Survivors(rt_raw_recs)
           n == Len(rt_selected)
       IN /\ \A i \in 1..n : Registered(rt_selected[i])
          /\ \A i, j \in 1..n : i # j => rt_selected[i] # rt_selected[j]
          /\ n <= rt_max_agents
          /\ rt_value.t # "list" => rt_raw_recs = <<>>
          /\ S # {} =>
               /\ n = Min(rt_max_agents, Cardinality(S))
               /\ \A i \in 1..n : rt_selected[i] \in S
               /\ \A i, j \in 1..n :
                     i < j => FirstAt(rt_selected[i], rt_raw_recs)
                                  < FirstAt(rt_selected[j], rt_raw_recs)
               /\ \A a \in S :
                     (\A i \in 1..n : rt_selected[i] # a)
                     => \A i \in 1..n : FirstAt(rt_selected[i], rt_raw_recs)
                                            < FirstAt(a, rt_raw_recs)
          /\ (S = {} /\ rt_max_agents >= 1) => rt_selected = <<"Ruby">>

C18_Witness ==
    /\ rt_pc = "returned"
    /\ rt_raw_recs = <<"<number>", "rachel">>
    /\ rt_max_agents = 2
    /\ rt_selected = <<"Rachel">>

OutputIssues(text) ==
    IF text.shape \in {"object", "text_with_object"} /\ text.obj.issues.t = "list"
    THEN text.obj.issues.items ELSE <<>>

\* an entry that is an object with a non-empty title
HasTitle(it) == it.isdict /\ it.title.t = "str" /\ Strip(it.title.s) # ""

\* C20: extract_all returns, in the order of the model output, exactly the
\* issues that are objects with a non-empty title, each with a non-empty title
\* and a severity among low, medium, high (any other severity becomes medium);
\* the other entries are dropped, and an output without an issues list gives an
\* empty issues list.
C20_IssuesOfOutput ==
    (is_pc # "idle" /\ is_raw.shape # "call_raises")
    => /\ is_pc = "returned"
       /\ LET kept == SelectSeq(OutputIssues(is_raw), HasTitle)
              out == is_result.issues
          IN /\ Len(out) = Len(kept)
             /\ \A i \in 1..Len(out) :
                   /\ out[i].title # ""
                   /\ out[i].title = Strip(kept[i].title.s)
                   /\ out[i].severity \in {"low", "medium", "high"}
                   /\ out[i].severity =
                         IF kept[i].severity.t = "str"
                            /\ Lower(Strip(kept[i].severity.s))
                                   \in {"low", "medium", "high"}
                         THEN Lower(Strip(kept[i].severity.s)) ELSE "medium"

====
